---- MODULE Spec2Model ----
(***************************************************************************)
(* A model of the nexxT C++ execution engine: the input port queue, the    *)
(* inter-thread connection with its semaphore, the per-thread executor and *)
(* the re-entrant delivery of data samples to filters.                     *)
(*                                                                         *)
(* The receiving thread is modelled as a call stack of frames; every       *)
(* action is one step of the code that is on top of that stack.  The       *)
(* sending thread of an inter-thread connection and the thread calling     *)
(* setStopped / clear are separate processes.                              *)
(***************************************************************************)
EXTENDS Integers, Sequences, FiniteSets, TLC

VARIABLES
    queue,                    \* InputPortD::queue, newest sample first
    queueSizeSamples,         \* InputPortD::queueSizeSamples
    queueSizeSeconds,         \* InputPortD::queueSizeSeconds (whole seconds)
    interthreadDynamicQueue,  \* InputPortD::interthreadDynamicQueue
    semaphoreN,               \* InputPortD::semaphoreN[&itc.semaphore], -1: no entry
    semaphore,                \* InterThreadConnectionD::semaphore.available()
    itcStopped,               \* InterThreadConnectionD::stopped
    width,                    \* the n the semaphore was constructed with
    senderPc,                 \* position of the sending thread in receiveSample
    pendingReceives,          \* ExecutorD::pendingReceives
    blockedFilters,           \* ExecutorD::blockedFilters
    stopped,                  \* ExecutorD::stopped
    numNotifiesInQueue,       \* ExecutorD::numNotifiesInQueue
    eventQueue,               \* posted events of the receiving thread's Qt event loop
    stack,                    \* call stack of the receiving thread
    stackDepth,               \* static local of receiveAsync
    mainPendingReceives,      \* static local pendingReceives of receiveAsync
    isMainThread,             \* the receiving thread is QCoreApplication's thread
    connected,                \* input ports that have a connection (graph wiring)
    requested,                \* the (samples, seconds) passed to the ports' constructor
    stamps,                   \* timestamp of the n-th sample a source transmits on an edge
    budget,                   \* number of samples the sources transmit, all edges
    transmitted,              \* per edge: number of samples handed to the edge
    emitted,                  \* per ITC: timestamps emitted by transmitInterThread
    delivered,                \* per port: timestamps for which onPortDataChanged was entered
    history,                  \* per port: samples passed to addToQueue, in call order
    filterState,              \* per filter: BaseFilterEnvironment::state()
    errorLog,                 \* the NEXXT_LOG_ERROR records: << site, port, sample >>
    lastCall,                 \* the last call of a port operation and how it ended
    popped,                   \* the events Executor::step has taken from pendingReceives
    environment,              \* per filter: BaseFilterEnvironmentD and its dynamic ports
    phase,                    \* the operation the orchestrator performs on the filters
    trail,                    \* per filter: the states state() has had, in order
    numCalled,                \* the local multiset numCalled of Executor::finalize
    pendingReceivesMutex,     \* ExecutorD::pendingReceivesMutex: the thread that holds it
    clearPc                   \* position of the thread that calls Executor::clear

vars == << queue, queueSizeSamples, queueSizeSeconds, interthreadDynamicQueue,
           semaphoreN, semaphore, itcStopped, width, senderPc, pendingReceives,
           blockedFilters, stopped, numNotifiesInQueue, eventQueue, stack,
           stackDepth, mainPendingReceives, isMainThread, connected,
           requested, stamps, budget, transmitted, emitted, delivered, history,
           filterState, errorLog, lastCall, popped, environment, phase, trail,
           numCalled, pendingReceivesMutex, clearPc >>

portVars == << queue, queueSizeSamples, queueSizeSeconds, interthreadDynamicQueue,
               semaphoreN, history >>
itcVars == << semaphore, itcStopped, width, senderPc, emitted >>
execVars == << pendingReceives, blockedFilters, stopped, numNotifiesInQueue >>
threadVars == << eventQueue, stack, stackDepth, mainPendingReceives >>
wiringVars == << isMainThread, connected, requested, stamps, budget >>
lifecycleVars == << environment, phase, trail >>
mutexVars == << pendingReceivesMutex, clearPc >>
ghostVars == << popped, lifecycleVars, numCalled, mutexVars >>
apiVars == << filterState, errorLog, lastCall, ghostVars >>

----------------------------------------------------------------------------
(* Bounds of the model *)

MaxSamples == 4        \* samples transmitted in one behaviour (all edges)
MaxItcSamples == 3     \* the same in the inter-thread specifications
MaxLiveSamples == 3    \* the same in the specification with fairness
MaxThrowSamples == 3   \* the same in the specification with failing callbacks
MaxDynSamples == 4     \* the same in the dynamic queue specification
MaxBurst == 6          \* samples of the burst in the burst specification
BurstQueueSamples == 4 \* queueSizeSamples of the port that receives the burst
BurstWidth == 1        \* width of the ITC that carries the burst
MaxWidth == 2          \* largest width an ITC is constructed with
MaxInserts == 3        \* inserts into the queue in the queue specification
MaxRefused == 1        \* refused writes of a port's flag in the lifecycle specification
MaxThrown == 1         \* failing callbacks in the lifecycle specification
MaxStepSamples == 4    \* samples transmitted in the step specification
MaxExtra == 2          \* pending events beyond MAX_EVENTS_PER_STEP in the multiStep specification
MaxFinalizePending == 2 \* pending events when finalize() is called
MaxNestedSamples == 2  \* samples transmitted outside finalize() in the nested finalize specification
MaxQueueSamples == 3   \* largest queueSizeSamples in the queue specification
MaxQueueSeconds == 2   \* largest queueSizeSeconds in the queue specification
StampJump == 2         \* seconds between two samples when the source pauses

(* Program constants *)

MAX_EVENTS_PER_STEP == 32
TIMESTAMP_RES_PER_SECOND == 1000000

----------------------------------------------------------------------------
(* The graph: two filters on the receiving thread.  Every input port has   *)
(* one incoming edge; the port's name tells the kind of the edge.          *)

Filters == {"A", "B"}
ItcPorts == {"a_itc", "b_itc"}
ExecPorts == {"a_ex", "b_ex"}
DirectPorts == {"a_dir", "b_dir"}
Ports == ItcPorts \cup ExecPorts \cup DirectPorts
NoPort == "none"
NoFilter == "none"

\* QMutex: the value of pendingReceivesMutex while no thread holds it
Free == "free"

\* the thread the executor lives on and the thread that calls clear(); a
\* sending thread is named by the port its ITC feeds
ExecutorThread == "executor"
ClearThread == "clear"

FilterOf(p) == IF p \in {"a_itc", "a_ex", "a_dir"} THEN "A" ELSE "B"

\* the filter whose output port feeds a same-thread edge
SourceOf(p) == IF p \in {"a_ex", "a_dir"} THEN "B" ELSE "A"

----------------------------------------------------------------------------
(* Sequences *)

Last(s) == s[Len(s)]
Front(s) == SubSeq(s, 1, Len(s) - 1)
RemoveAt(s, i) == SubSeq(s, 1, i - 1) \o SubSeq(s, i + 1, Len(s))

RECURSIVE SumOver(_, _)
SumOver(f, S) ==
    IF S = {} THEN 0
    ELSE LET x == CHOOSE y \in S : TRUE IN f[x] + SumOver(f, S \ {x})

----------------------------------------------------------------------------
(* InputPortInterface: the queue.  A sample is its timestamp (int64 us).   *)

\* InputPortInterface::setQueueSize: the pair (samples, seconds) stored
SetQueueSize(samples, seconds) ==
    IF samples <= 0 /\ seconds <= 0
    THEN << 1, seconds >>
    ELSE << samples, seconds >>

\* removeFirst() in place of removeLast(): the newest samples are evicted
RECURSIVE TrimSamplesFirst(_, _)
TrimSamplesFirst(q, k) ==
    IF Len(q) > k THEN TrimSamplesFirst(Tail(q), k) ELSE q

\* while(d->queue.size() > d->queueSizeSamples) d->queue.removeLast()
RECURSIVE TrimSamples(_, _)
TrimSamples(q, k) ==
    IF Len(q) > k THEN TrimSamples(Front(q), k) ELSE q

\* an if in place of the while: at most one sample is evicted
TrimSecondsOnce(q, queueSizeTime) ==
    IF Len(q) > 0 /\ (q[1] - Last(q)) > queueSizeTime THEN Front(q) ELSE q

\* while(size() > 0 && first - last > queueSizeTime) d->queue.removeLast()
RECURSIVE TrimSeconds(_, _)
TrimSeconds(q, queueSizeTime) ==
    IF Len(q) > 0 /\ (q[1] - Last(q)) > queueSizeTime
    THEN TrimSeconds(Front(q), queueSizeTime)
    ELSE q

\* append() in place of prepend(): the new sample goes to the old end
AddToQueueAppend(q, samples, seconds, sample) ==
    LET q1 == q \o << sample >>
        q2 == IF samples > 0 THEN TrimSamples(q1, samples) ELSE q1
    IN  IF seconds > 0
        THEN TrimSeconds(q2, seconds * TIMESTAMP_RES_PER_SECOND)
        ELSE q2

\* InputPortInterface::addToQueue
AddToQueue(q, samples, seconds, sample) ==
    LET q1 == << sample >> \o q
        q2 == IF samples > 0 THEN TrimSamples(q1, samples) ELSE q1
    IN  IF seconds > 0
        THEN TrimSeconds(q2, seconds * TIMESTAMP_RES_PER_SECOND)
        ELSE q2

\* the range tests in front of the test of the arguments
GetDataRangeFirst(q, delaySamples, delaySeconds) ==
    IF delaySamples >= Len(q) THEN "out_of_range"
    ELSE IF delaySamples >= 0 /\ delaySeconds >= 0 THEN "runtime_error"
    ELSE IF delaySamples >= 0 THEN q[delaySamples + 1]
    ELSE IF delaySeconds >= 0
    THEN LET delayTime == delaySeconds * TIMESTAMP_RES_PER_SECOND
             passed == { i \in 1..Len(q) : ~((q[1] - q[i]) < delayTime) }
         IN  IF passed = {} THEN "out_of_range"
             ELSE q[CHOOSE i \in passed : \A j \in passed : i <= j]
    ELSE "runtime_error"

\* delaySamples counted from the oldest sample, and > in place of >=
GetDataFromTail(q, delaySamples, delaySeconds) ==
    IF delaySamples >= 0 /\ delaySeconds >= 0 THEN "runtime_error"
    ELSE IF delaySamples >= 0
    THEN IF delaySamples >= Len(q) THEN "out_of_range" ELSE q[Len(q) - delaySamples]
    ELSE IF delaySeconds >= 0
    THEN LET delayTime == delaySeconds * TIMESTAMP_RES_PER_SECOND
             passed == { i \in 1..Len(q) : ~((q[1] - q[i]) < delayTime) }
         IN  IF passed = {} THEN "out_of_range"
             ELSE q[CHOOSE i \in passed : \A j \in passed : i <= j]
    ELSE "runtime_error"

\* <= in place of < in the scan: a sample as old as the delay is passed over
GetDataStrict(q, delaySamples, delaySeconds) ==
    IF delaySamples >= 0 /\ delaySeconds >= 0 THEN "runtime_error"
    ELSE IF delaySamples >= 0
    THEN IF delaySamples >= Len(q) THEN "out_of_range" ELSE q[delaySamples + 1]
    ELSE IF delaySeconds >= 0
    THEN LET delayTime == delaySeconds * TIMESTAMP_RES_PER_SECOND
             passed == { i \in 1..Len(q) : ~((q[1] - q[i]) <= delayTime) }
         IN  IF passed = {} THEN "out_of_range"
             ELSE q[CHOOSE i \in passed : \A j \in passed : i <= j]
    ELSE "runtime_error"

\* InputPortInterface::getData: the sample, or the exception thrown
GetData(q, delaySamples, delaySeconds) ==
    IF delaySamples >= 0 /\ delaySeconds >= 0 THEN "runtime_error"
    ELSE IF delaySamples >= 0
    THEN IF delaySamples >= Len(q) THEN "out_of_range" ELSE q[delaySamples + 1]
    ELSE IF delaySeconds >= 0
    THEN LET delayTime == delaySeconds * TIMESTAMP_RES_PER_SECOND
             passed == { i \in 1..Len(q) : ~((q[1] - q[i]) < delayTime) }
         IN  IF passed = {} THEN "out_of_range"
             ELSE q[CHOOSE i \in passed : \A j \in passed : i <= j]
    ELSE "runtime_error"

----------------------------------------------------------------------------
(* Records *)

\* ExecutorD::ReceiveEvent; sem tells whether the semaphore pointer is set
\* (it then points to the semaphore of the ITC that feeds the port)
ReceiveEvent(p, s, sem) == [port |-> p, sample |-> s, sem |-> sem]

\* a posted event of the Qt event loop: a queued notify() signal, a
\* zero-timer multiStep() call or a queued receiveAsync slot call
Posted(ev, p, s) == [ev |-> ev, port |-> p, sample |-> s]

\* a stack frame of the receiving thread; n counts what is left of a loop
\* (multiStep, tryAcquire) or the transmits a callback has made
Frame(op, p, s, pc, from, n, pend, isPending, sem) ==
    [op |-> op, port |-> p, sample |-> s, pc |-> pc, from |-> from, n |-> n,
     pend |-> pend, isPending |-> isPending, sem |-> sem]

MultiStepFrame(n) == Frame("multiStep", NoPort, 0, "loop", NoFilter, n, << >>, FALSE, FALSE)
StepFrame(from) == Frame("step", NoPort, 0, "dispatch", from, 0, << >>, FALSE, FALSE)
CallbackFrame(p, s) == Frame("callback", p, s, "run", NoFilter, 0, << >>, FALSE, FALSE)
ProcessEventsFrame == Frame("processEvents", NoPort, 0, "loop", NoFilter, 0, << >>, FALSE, FALSE)
\* a receiveAsync call that forgets it was made by the drain
ReceiveAsyncFrameFresh(p, s, sem, isPending) ==
    Frame("receiveAsync", p, s, "start", NoFilter, 0, << >>, FALSE, sem)

ReceiveAsyncFrame(p, s, sem, isPending) ==
    Frame("receiveAsync", p, s, "start", NoFilter, 0, << >>, isPending, sem)

\* a call of a port operation from the event loop: the thread it is made on
\* (the port's thread or another one), its arguments, the queue it found and
\* the value it returned or the exception that left it
Call(op, p, onThread, args, seen, result) ==
    [op |-> op, port |-> p, onThread |-> onThread, args |-> args, seen |-> seen,
     result |-> result]
NoCall == Call("none", NoPort, TRUE, << >>, << >>, "none")

Top == stack[Len(stack)]
Below == Front(stack)
InEventLoop == IF stack = << >> THEN TRUE ELSE Top.op = "processEvents"
Running(op, pc) == stack # << >> /\ Top.op = op /\ Top.pc = pc

Budget == SumOver(transmitted, Ports) < budget

\* the samples of an edge carry the timestamps 1, 2, 3, ...
Counting == [n \in 1..(MaxSamples + MaxBurst) |-> n]

\* ... or the source pauses for StampJump seconds before the last-th sample
Jumping(last) ==
    [n \in 1..(MaxSamples + MaxBurst) |->
        IF n < last THEN n ELSE n + StampJump * TIMESTAMP_RES_PER_SECOND]

----------------------------------------------------------------------------
(* Executor.cpp *)

\* a notifyInThread that counts every call
NotifyCountAlways(num) == num + 1

\* Executor::notifyInThread: the counter afterwards
NotifyCount(num) == IF num = 0 THEN num + 1 ELSE num

\* the test of numNotifiesInQueue inverted: no multiStep() is posted
NotifyPostsInverted(num) ==
    IF num # 0 THEN << Posted("multiStep", NoPort, 0) >> ELSE << >>

\* a notifyInThread that posts multiStep() whatever is posted already
NotifyPostsAlways(num) == << Posted("multiStep", NoPort, 0) >>

\* Executor::notifyInThread: the multiStep() calls it posts (QTimer::singleShot)
NotifyPosts(num) == IF num = 0 THEN << Posted("multiStep", NoPort, 0) >> ELSE << >>

\* a scan that accepts the last event of an unblocked filter
LastDeliverable(pending, blocked) ==
    IF \E i \in 1..Len(pending) : FilterOf(pending[i].port) \notin blocked
    THEN CHOOSE i \in 1..Len(pending) :
            /\ FilterOf(pending[i].port) \notin blocked
            /\ \A j \in (i + 1)..Len(pending) : FilterOf(pending[j].port) \in blocked
    ELSE 0

\* Executor::step: index of the event the scan accepts, 0 if there is none
FirstDeliverable(pending, blocked) ==
    IF \E i \in 1..Len(pending) : FilterOf(pending[i].port) \notin blocked
    THEN CHOOSE i \in 1..Len(pending) :
            /\ FilterOf(pending[i].port) \notin blocked
            /\ \A j \in 1..(i - 1) : FilterOf(pending[j].port) \in blocked
    ELSE 0

\* StepFunctionHelper constructor: the blocked filters during step(fromFilter)
BlockedDuring(blocked, from) ==
    IF from # NoFilter THEN blocked \cup {from} ELSE blocked

\* StepFunctionHelper destructor: the blocked filters after step(fromFilter)
BlockedAfter(blocked, from) ==
    IF from # NoFilter THEN blocked \ {from} ELSE blocked

\* InputPortInterface::receiveSync, up to the entry of onPortDataChanged:
\* addToQueue, then transmit() -> portDataChanged -> onPortDataChanged (the
\* filters are ACTIVE)
EnterCallback(p, s) ==
    /\ queue' = [queue EXCEPT ![p] =
                    AddToQueue(queue[p], queueSizeSamples[p], queueSizeSeconds[p], s)]
    /\ history' = [history EXCEPT ![p] = Append(@, s)]
    /\ delivered' = [delivered EXCEPT ![p] = Append(@, s)]

\* Executor::step(fromFilter), called with the stack `base` below it.
\* notFound is the stack after a step() that returned false.
DoStep(from, base, notFound) ==
    IF stopped
    THEN /\ stack' = notFound
         /\ UNCHANGED << pendingReceives, blockedFilters, queue, history, delivered,
                         popped >>
    ELSE LET b == BlockedDuring(blockedFilters, from)
             i == FirstDeliverable(pendingReceives, b)
         IN  IF i = 0
             THEN /\ stack' = notFound
                  /\ blockedFilters' = BlockedAfter(b, from)
                  /\ UNCHANGED << pendingReceives, queue, history, delivered, popped >>
             ELSE LET ev == pendingReceives[i] IN
                  /\ pendingReceives' = RemoveAt(pendingReceives, i)
                  /\ popped' = Append(popped, ev)
                  /\ blockedFilters' = b
                  /\ IF ~ev.sem
                     THEN /\ EnterCallback(ev.port, ev.sample)
                          /\ stack' = base \o << StepFrame(from),
                                                 CallbackFrame(ev.port, ev.sample) >>
                     ELSE /\ stack' = base \o << StepFrame(from),
                                 ReceiveAsyncFrame(ev.port, ev.sample, TRUE, FALSE) >>
                          /\ UNCHANGED << queue, history, delivered >>

\* the event loop runs a queued notify() signal: Executor::notifyInThread
DispatchNotify ==
    /\ InEventLoop
    /\ eventQueue # << >>
    /\ Head(eventQueue).ev = "notify"
    /\ numNotifiesInQueue' = NotifyCount(numNotifiesInQueue)
    /\ eventQueue' = Tail(eventQueue) \o NotifyPosts(numNotifiesInQueue)
    /\ UNCHANGED << portVars, itcVars, pendingReceives, blockedFilters, stopped, stack,
                    stackDepth, mainPendingReceives, wiringVars, apiVars, transmitted,
                    delivered >>

\* the event loop runs the zero-timer: Executor::multiStep up to its loop
DispatchMultiStep ==
    /\ InEventLoop
    /\ eventQueue # << >>
    /\ Head(eventQueue).ev = "multiStep"
    /\ eventQueue' = Tail(eventQueue)
    /\ numNotifiesInQueue' = numNotifiesInQueue - 1
    /\ stack' = Append(stack, MultiStepFrame(MAX_EVENTS_PER_STEP))
    /\ UNCHANGED << portVars, itcVars, pendingReceives, blockedFilters, stopped,
                    stackDepth, mainPendingReceives, wiringVars, apiVars, transmitted,
                    delivered >>

\* Executor::multiStep: one evaluation of the loop condition; inTime is
\* curr - begin < STEP_DEADLINE, which holds on the first evaluation
MultiStepLoop ==
    /\ Running("multiStep", "loop")
    /\ \E inTime \in BOOLEAN :
        /\ Top.n = MAX_EVENTS_PER_STEP => inTime
        /\ IF (~stopped) /\ Top.n > 0 /\ inTime
           THEN /\ DoStep(NoFilter, stack, Below)
                /\ UNCHANGED << numNotifiesInQueue, eventQueue >>
           ELSE /\ numNotifiesInQueue' = NotifyCount(numNotifiesInQueue)
                /\ eventQueue' = eventQueue \o NotifyPosts(numNotifiesInQueue)
                /\ stack' = Below
                /\ UNCHANGED << pendingReceives, blockedFilters, queue, history,
                                delivered, popped >>
    /\ UNCHANGED << queueSizeSamples, queueSizeSeconds, interthreadDynamicQueue,
                    semaphoreN, itcVars, stopped, stackDepth, mainPendingReceives,
                    wiringVars, filterState, errorLog, lastCall, lifecycleVars, mutexVars,
                    numCalled, transmitted >>

\* the dispatch of Executor::step has returned: ~StepFunctionHelper, and
\* maxEvents-- in a calling multiStep
StepReturn ==
    /\ Running("step", "dispatch")
    /\ blockedFilters' = BlockedAfter(blockedFilters, Top.from)
    /\ stack' = IF Len(stack) > 1 /\ stack[Len(stack) - 1].op = "multiStep"
                THEN [Below EXCEPT ![Len(stack) - 1].n = @ - 1]
                ELSE Below
    /\ UNCHANGED << portVars, itcVars, pendingReceives, stopped, numNotifiesInQueue,
                    eventQueue, stackDepth, mainPendingReceives, wiringVars, apiVars,
                    transmitted, delivered >>

\* Executor::clear
Clear ==
    /\ ~stopped
    /\ stopped' = TRUE
    /\ pendingReceives' = << >>
    /\ blockedFilters' = {}
    /\ UNCHANGED << portVars, itcVars, numNotifiesInQueue, threadVars, wiringVars, apiVars,
                    transmitted, delivered >>

----------------------------------------------------------------------------
(* InputPortInterface.cpp: receiveAsync *)

\* the value semaphoreN[semaphore] has after the map entry was created
\* variant: the counter of a semaphore seen first starts at 0
SemaphoreNFromZero(p) == IF semaphoreN[p] = -1 THEN 0 ELSE semaphoreN[p]

SemaphoreN(p) == IF semaphoreN[p] = -1 THEN 1 ELSE semaphoreN[p]

\* the credit never opened: delta is taken to be positive
DeltaPositive(p, q) == 1

\* delta computed against the queue without the sample just pushed
DeltaBeforePush(p, q) == SemaphoreN(p) - (Len(q) - 1)

\* int32_t delta = d->semaphoreN[semaphore] - d->queue.size(), after the push
Delta(p, q) == SemaphoreN(p) - Len(q)

\* receiveAsync from addToQueue to the entry of onPortDataChanged (static
\* queue), to the call of transmit() (dynamic queue, delta <= 0) or to the
\* tryAcquire loop (delta > 0).  f is the frame of the call, base the stack
\* below it.
ReceiveAsyncAdd(f, base) ==
    LET p == f.port
        q == AddToQueue(queue[p], queueSizeSamples[p], queueSizeSeconds[p], f.sample)
        delta == Delta(p, q)
    IN  /\ queue' = [queue EXCEPT ![p] = q]
        /\ history' = [history EXCEPT ![p] = Append(@, f.sample)]
        /\ IF (~interthreadDynamicQueue[p]) \/ (~f.sem)
           THEN /\ delivered' = [delivered EXCEPT ![p] = Append(@, f.sample)]
                /\ stack' = base \o << [f EXCEPT !.pc = "inCallbackStatic"],
                                       CallbackFrame(p, f.sample) >>
                /\ UNCHANGED << semaphore, semaphoreN >>
           ELSE IF delta <= 0
           THEN /\ semaphore' = [semaphore EXCEPT ![p] = @ + (1 - delta)]
                /\ semaphoreN' = [semaphoreN EXCEPT ![p] = SemaphoreN(p) + (-delta)]
                /\ stack' = base \o << [f EXCEPT !.pc = "transmit"] >>
                /\ UNCHANGED delivered
           ELSE /\ semaphoreN' = [semaphoreN EXCEPT ![p] = SemaphoreN(p) - 1]
                /\ stack' = base \o << [f EXCEPT !.pc = "tryAcquire", !.n = delta - 1] >>
                /\ UNCHANGED << semaphore, delivered >>

\* receiveAsync from its entry: the thread is the port's thread.  On the main
\* thread a call that is not pending is buffered while another call yields,
\* and yields itself (QCoreApplication::processEvents) otherwise.
ReceiveAsyncStart ==
    /\ Running("receiveAsync", "start")
    /\ IF (~Top.isPending) /\ isMainThread
       THEN IF stackDepth > 0
            THEN /\ mainPendingReceives' =
                        Append(mainPendingReceives,
                               ReceiveEvent(Top.port, Top.sample, Top.sem))
                 /\ stack' = Below
                 /\ UNCHANGED << stackDepth, queue, history, delivered, semaphore,
                                 semaphoreN >>
            ELSE /\ stackDepth' = stackDepth + 1
                 /\ stack' = Below \o << [Top EXCEPT !.pc = "yield"], ProcessEventsFrame >>
                 /\ UNCHANGED << mainPendingReceives, queue, history, delivered,
                                 semaphore, semaphoreN >>
       ELSE /\ ReceiveAsyncAdd(Top, Below)
            /\ UNCHANGED << stackDepth, mainPendingReceives >>
    /\ UNCHANGED << queueSizeSamples, queueSizeSeconds, interthreadDynamicQueue,
                    itcStopped, width, senderPc, emitted, execVars, eventQueue,
                    wiringVars, apiVars, transmitted >>

\* processEvents() has run the posted events and returns into receiveAsync
ReceiveAsyncYielded ==
    /\ Running("processEvents", "loop")
    /\ eventQueue = << >>
    /\ stackDepth' = stackDepth - 1
    /\ ReceiveAsyncAdd(stack[Len(stack) - 1], SubSeq(stack, 1, Len(stack) - 2))
    /\ UNCHANGED << queueSizeSamples, queueSizeSeconds, interthreadDynamicQueue,
                    itcStopped, width, senderPc, emitted, execVars, eventQueue,
                    mainPendingReceives, wiringVars, apiVars, transmitted >>

\* one iteration of for(i = 1; i < delta; i++) { tryAcquire(1) ... }, or the
\* end of the loop
ReceiveAsyncTryAcquire ==
    /\ Running("receiveAsync", "tryAcquire")
    /\ LET p == Top.port IN
       IF Top.n > 0 /\ semaphore[p] > 0
       THEN /\ semaphore' = [semaphore EXCEPT ![p] = @ - 1]
            /\ semaphoreN' = [semaphoreN EXCEPT ![p] = @ - 1]
            /\ stack' = Below \o << [Top EXCEPT !.n = @ - 1] >>
       ELSE /\ stack' = Below \o << [Top EXCEPT !.pc = "transmit"] >>
            /\ UNCHANGED << semaphore, semaphoreN >>
    /\ UNCHANGED << queue, queueSizeSamples, queueSizeSeconds, interthreadDynamicQueue,
                    history, itcStopped, width, senderPc, emitted, execVars,
                    eventQueue, stackDepth, mainPendingReceives, wiringVars, apiVars,
                    transmitted, delivered >>

\* transmit() of the dynamic queue branches: onPortDataChanged is entered
ReceiveAsyncTransmit ==
    /\ Running("receiveAsync", "transmit")
    /\ delivered' = [delivered EXCEPT ![Top.port] = Append(@, Top.sample)]
    /\ stack' = Below \o << [Top EXCEPT !.pc = "inCallbackDynamic"],
                            CallbackFrame(Top.port, Top.sample) >>
    /\ UNCHANGED << portVars, itcVars, execVars, eventQueue, stackDepth,
                    mainPendingReceives, wiringVars, apiVars, transmitted >>

\* release(1) before and after transmit(): two permits for one sample
ReleasedTwice(f) ==
    IF f.pc = "inCallbackStatic" /\ f.sem THEN 2 ELSE 0

\* the permits receiveAsync releases after transmit() has returned
ReleasedAfterCallback(f) ==
    IF f.pc = "inCallbackStatic" /\ f.sem THEN 1 ELSE 0

\* transmit() has returned: release the permit (static queue), then on the
\* main thread take over the buffered calls
ReceiveAsyncAfterCallback ==
    /\ stack # << >>
    /\ Top.op = "receiveAsync"
    /\ Top.pc \in {"inCallbackStatic", "inCallbackDynamic"}
    /\ semaphore' = IF Top.port \in ItcPorts
                    THEN [semaphore EXCEPT ![Top.port] = @ + ReleasedAfterCallback(Top)]
                    ELSE semaphore
    /\ IF isMainThread /\ mainPendingReceives # << >>
       THEN /\ stack' = Below \o << [Top EXCEPT !.pc = "drain",
                                                !.pend = mainPendingReceives] >>
            /\ mainPendingReceives' = << >>
       ELSE /\ stack' = Below
            /\ UNCHANGED mainPendingReceives
    /\ UNCHANGED << queue, queueSizeSamples, queueSizeSeconds, interthreadDynamicQueue,
                    semaphoreN, history, itcStopped, width, senderPc, emitted,
                    execVars, eventQueue, stackDepth, wiringVars, apiVars, transmitted,
                    delivered >>

\* for(auto c: pendingCopy) pInstance->receiveAsync(pSample, pSemaphore, true)
ReceiveAsyncDrain ==
    /\ Running("receiveAsync", "drain")
    /\ IF Top.pend = << >>
       THEN stack' = Below
       ELSE LET c == Head(Top.pend) IN
            stack' = Below \o << [Top EXCEPT !.pend = Tail(@)],
                                 ReceiveAsyncFrame(c.port, c.sample, c.sem, TRUE) >>
    /\ UNCHANGED << portVars, itcVars, execVars, eventQueue, stackDepth,
                    mainPendingReceives, wiringVars, apiVars, transmitted, delivered >>

----------------------------------------------------------------------------
(* onPortDataChanged of a filter: it may transmit on its output ports       *)

\* the receiveSync slot connected as a queued call: transmit returns at once
CallbackTransmitPosted(q) ==
    /\ Running("callback", "run")
    /\ q \in DirectPorts \cap connected
    /\ SourceOf(q) = FilterOf(Top.port)
    /\ Budget
    /\ transmitted' = [transmitted EXCEPT ![q] = @ + 1]
    /\ eventQueue' = Append(eventQueue, Posted("receiveAsync", q, stamps[transmitted[q] + 1]))
    /\ stack' = Below \o << [Top EXCEPT !.n = @ + 1] >>
    /\ UNCHANGED << portVars, itcVars, execVars, stackDepth, mainPendingReceives,
                    wiringVars, apiVars, delivered >>

\* OutputPortInterface::transmit over a direct connection: the receiveSync
\* slot of the input port runs inside the emit
CallbackTransmitDirect(q) ==
    /\ Running("callback", "run")
    /\ q \in DirectPorts \cap connected
    /\ SourceOf(q) = FilterOf(Top.port)
    /\ Budget
    /\ transmitted' = [transmitted EXCEPT ![q] = @ + 1]
    /\ EnterCallback(q, stamps[transmitted[q] + 1])
    /\ stack' = Below \o << [Top EXCEPT !.n = @ + 1],
                            CallbackFrame(q, stamps[transmitted[q] + 1]) >>
    /\ UNCHANGED << queueSizeSamples, queueSizeSeconds, interthreadDynamicQueue,
                    semaphoreN, itcVars, execVars, eventQueue, stackDepth,
                    mainPendingReceives, wiringVars, apiVars >>

\* Executor::registerPendingRcvSync: the pending events afterwards
RegisterPendingRcvSync(pending, p, s) ==
    IF ~stopped THEN Append(pending, ReceiveEvent(p, s, FALSE)) ELSE pending

\* transmit over a same-thread connection that goes through the executor:
\* registerPendingRcvSync(inputPort, sample), which ends in notifyInThread();
\* the call of step(fromFilter) follows
CallbackTransmitExec(q) ==
    /\ Running("callback", "run")
    /\ q \in ExecPorts \cap connected
    /\ SourceOf(q) = FilterOf(Top.port)
    /\ Budget
    /\ transmitted' = [transmitted EXCEPT ![q] = @ + 1]
    /\ pendingReceives' = RegisterPendingRcvSync(pendingReceives, q,
                                               stamps[transmitted[q] + 1])
    /\ numNotifiesInQueue' = IF ~stopped THEN NotifyCount(numNotifiesInQueue)
                             ELSE numNotifiesInQueue
    /\ eventQueue' = IF ~stopped THEN eventQueue \o NotifyPosts(numNotifiesInQueue)
                     ELSE eventQueue
    /\ stack' = Below \o << [Top EXCEPT !.pc = "callStep", !.n = @ + 1] >>
    /\ UNCHANGED << portVars, itcVars, blockedFilters, stopped, stackDepth,
                    mainPendingReceives, wiringVars, apiVars, delivered >>

\* the filter that is blocked while the executor is re-entered from the
\* callback of filter f
FromFilter(f) == f

\* executor->step(fromFilter) from inside the transmitting filter's callback
CallbackStep ==
    /\ Running("callback", "callStep")
    /\ LET resumed == Below \o << [Top EXCEPT !.pc = "run"] >> IN
       DoStep(FromFilter(FilterOf(Top.port)), resumed, resumed)
    /\ UNCHANGED << queueSizeSamples, queueSizeSeconds, interthreadDynamicQueue,
                    semaphoreN, itcVars, stopped, numNotifiesInQueue, eventQueue,
                    stackDepth, mainPendingReceives, wiringVars, filterState, errorLog,
                    lastCall, lifecycleVars, mutexVars, numCalled, transmitted >>

\* onPortDataChanged returns
CallbackReturn ==
    /\ Running("callback", "run")
    /\ stack' = Below
    /\ UNCHANGED << portVars, itcVars, execVars, eventQueue, stackDepth,
                    mainPendingReceives, wiringVars, apiVars, transmitted, delivered >>

\* the exception leaves portDataChanged and transmit(): the release(1) of
\* receiveAsync is skipped, its catch logs the exception
CallbackThrowUncaught ==
    /\ Running("callback", "run")
    /\ errorLog' = Append(errorLog, << "receiveAsync", Top.port, Top.sample >>)
    /\ stack' = IF Len(stack) > 1
                THEN [Below EXCEPT ![Len(stack) - 1].sem = FALSE]
                ELSE Below
    /\ UNCHANGED << portVars, itcVars, execVars, eventQueue, stackDepth,
                    mainPendingReceives, wiringVars, filterState, lastCall,
                    ghostVars, transmitted, delivered >>

\* onPortDataChanged throws a std::exception: the catch of
\* BaseFilterEnvironment::portDataChanged logs it, portDataChanged returns
CallbackThrow ==
    /\ Running("callback", "run")
    /\ errorLog' = Append(errorLog, << "portDataChanged", Top.port, Top.sample >>)
    /\ stack' = Below
    /\ UNCHANGED << portVars, itcVars, execVars, eventQueue, stackDepth,
                    mainPendingReceives, wiringVars, filterState, lastCall,
                    ghostVars, transmitted, delivered >>

----------------------------------------------------------------------------
(* Ports.cpp: InterThreadConnection, on the sending thread *)

\* OutputPortInterface::transmit on the sending thread enters receiveSample
ItcTransmit(p) ==
    /\ p \in ItcPorts \cap connected
    /\ senderPc[p] = "idle"
    /\ Budget
    /\ transmitted' = [transmitted EXCEPT ![p] = @ + 1]
    /\ senderPc' = [senderPc EXCEPT ![p] = "check"]
    /\ UNCHANGED << portVars, semaphore, itcStopped, width, emitted, execVars,
                    threadVars, wiringVars, apiVars, delivered >>

\* if( d->stopped.load() ) { discard; break; }
ItcCheckStopped(p) ==
    /\ senderPc[p] = "check"
    /\ senderPc' = [senderPc EXCEPT ![p] = IF itcStopped[p] THEN "idle" ELSE "acquire"]
    /\ UNCHANGED << portVars, semaphore, itcStopped, width, emitted, execVars,
                    threadVars, wiringVars, apiVars, transmitted, delivered >>

\* the result of tryAcquire ignored: the sample is emitted without a permit
ItcAcquireIgnored(p) ==
    /\ senderPc[p] = "acquire"
    /\ semaphore[p] = 0
    /\ emitted' = [emitted EXCEPT ![p] = Append(@, stamps[transmitted[p]])]
    /\ senderPc' = [senderPc EXCEPT ![p] = "idle"]
    /\ eventQueue' = Append(eventQueue, Posted("receiveAsync", p, stamps[transmitted[p]]))
    /\ UNCHANGED << portVars, semaphore, itcStopped, width, execVars, stack,
                    stackDepth, mainPendingReceives, wiringVars, apiVars, transmitted,
                    delivered >>

\* d->semaphore.tryAcquire(1, 500) gives up after 500 ms without a permit
ItcAcquireTimeout(p) ==
    /\ senderPc[p] = "acquire"
    /\ semaphore[p] = 0
    /\ senderPc' = [senderPc EXCEPT ![p] = "check"]
    /\ UNCHANGED << portVars, semaphore, itcStopped, width, emitted, execVars,
                    threadVars, wiringVars, apiVars, transmitted, delivered >>

\* tryAcquire succeeds: emit transmitInterThread(sample, &d->semaphore)
ItcAcquire(p) ==
    /\ senderPc[p] = "acquire"
    /\ semaphore[p] > 0
    /\ semaphore' = [semaphore EXCEPT ![p] = @ - 1]
    /\ emitted' = [emitted EXCEPT ![p] = Append(@, stamps[transmitted[p]])]
    /\ senderPc' = [senderPc EXCEPT ![p] = "idle"]

\* the signal is connected to the receiveAsync slot of the input port: a
\* queued connection, the call is posted to the receiving thread
ItcEmitQueued(p) ==
    /\ ItcAcquire(p)
    /\ eventQueue' = Append(eventQueue, Posted("receiveAsync", p, stamps[transmitted[p]]))
    /\ UNCHANGED << portVars, itcStopped, width, execVars, stack, stackDepth,
                    mainPendingReceives, wiringVars, apiVars, transmitted, delivered >>

\* Executor::registerPendingRcvAsync: the pending events afterwards
RegisterPendingRcvAsync(pending, p, s) ==
    IF ~stopped THEN Append(pending, ReceiveEvent(p, s, TRUE)) ELSE pending

\* the signal is handed to the receiving thread's executor:
\* registerPendingRcvAsync(inputPort, sample, semaphore), which emits notify()
ItcEmitExecutor(p) ==
    /\ ItcAcquire(p)
    /\ pendingReceives' = RegisterPendingRcvAsync(pendingReceives, p,
                                                stamps[transmitted[p]])
    /\ eventQueue' = IF ~stopped THEN Append(eventQueue, Posted("notify", NoPort, 0))
                     ELSE eventQueue
    /\ UNCHANGED << portVars, itcStopped, width, blockedFilters, stopped,
                    numNotifiesInQueue, stack, stackDepth, mainPendingReceives,
                    wiringVars, apiVars, transmitted, delivered >>

\* the same on the sending thread, step by step.  First the permit is
\* acquired, the signal is emitted and registerPendingRcvAsync reads
\* d->stopped ...
ItcRegisterCheck(p) ==
    /\ senderPc[p] = "acquire"
    /\ semaphore[p] > 0
    /\ semaphore' = [semaphore EXCEPT ![p] = @ - 1]
    /\ emitted' = [emitted EXCEPT ![p] = Append(@, stamps[transmitted[p]])]
    /\ senderPc' = [senderPc EXCEPT ![p] = IF ~stopped THEN "push" ELSE "idle"]
    /\ UNCHANGED << portVars, itcStopped, width, execVars, threadVars, wiringVars,
                    apiVars, transmitted, delivered >>

\* ... then it takes the mutex, appends the event and emits notify()
ItcRegisterPush(p) ==
    /\ senderPc[p] = "push"
    /\ pendingReceives' = Append(pendingReceives,
                                 ReceiveEvent(p, stamps[transmitted[p]], TRUE))
    /\ eventQueue' = Append(eventQueue, Posted("notify", NoPort, 0))
    /\ senderPc' = [senderPc EXCEPT ![p] = "idle"]
    /\ UNCHANGED << portVars, semaphore, itcStopped, width, emitted, blockedFilters,
                    stopped, numNotifiesInQueue, stack, stackDepth,
                    mainPendingReceives, wiringVars, apiVars, transmitted, delivered >>

\* an ITC of width 0 that passes its semaphore all the same
SemaphoreAttached == TRUE

\* the semaphore an ITC of width 0 passes with the signal: none
NoSemaphore == FALSE

\* receiveSample of an ITC of width 0: no tryAcquire, the signal is emitted
ItcEmitUnbounded(p) ==
    /\ senderPc[p] = "acquire"
    /\ width[p] = 0
    /\ emitted' = [emitted EXCEPT ![p] = Append(@, stamps[transmitted[p]])]
    /\ senderPc' = [senderPc EXCEPT ![p] = "idle"]
    /\ UNCHANGED semaphore

\* ... to the receiveAsync slot of the input port, as a queued call
ItcEmitUnboundedQueued(p) ==
    /\ ItcEmitUnbounded(p)
    /\ eventQueue' = Append(eventQueue,
                            Posted("receiveAsyncNoSemaphore", p, stamps[transmitted[p]]))
    /\ UNCHANGED << portVars, itcStopped, width, execVars, stack, stackDepth,
                    mainPendingReceives, wiringVars, apiVars, transmitted, delivered >>

\* ... to registerPendingRcvAsync(inputPort, sample, 0) of the executor
ItcEmitUnboundedExecutor(p) ==
    /\ ItcEmitUnbounded(p)
    /\ pendingReceives' =
            IF ~stopped
            THEN Append(pendingReceives,
                        ReceiveEvent(p, stamps[transmitted[p]], NoSemaphore))
            ELSE pendingReceives
    /\ eventQueue' = IF ~stopped THEN Append(eventQueue, Posted("notify", NoPort, 0))
                     ELSE eventQueue
    /\ UNCHANGED << portVars, itcStopped, width, blockedFilters, stopped,
                    numNotifiesInQueue, stack, stackDepth, mainPendingReceives,
                    wiringVars, apiVars, transmitted, delivered >>

\* the event loop runs a posted receiveAsync(sample, 0) slot call
DispatchReceiveAsyncUnbounded ==
    /\ InEventLoop
    /\ eventQueue # << >>
    /\ Head(eventQueue).ev = "receiveAsyncNoSemaphore"
    /\ eventQueue' = Tail(eventQueue)
    /\ stack' = Append(stack, ReceiveAsyncFrame(Head(eventQueue).port,
                                                Head(eventQueue).sample, NoSemaphore,
                                                FALSE))
    /\ UNCHANGED << portVars, itcVars, execVars, stackDepth, mainPendingReceives,
                    wiringVars, apiVars, transmitted, delivered >>

\* InterThreadConnection::setStopped
SetStopped(p, b) ==
    /\ p \in ItcPorts \cap connected
    /\ itcStopped[p] # b
    /\ itcStopped' = [itcStopped EXCEPT ![p] = b]
    /\ UNCHANGED << portVars, semaphore, width, senderPc, emitted, execVars,
                    threadVars, wiringVars, apiVars, transmitted, delivered >>

\* the event loop runs a posted receiveAsync slot call
DispatchReceiveAsync ==
    /\ InEventLoop
    /\ eventQueue # << >>
    /\ Head(eventQueue).ev = "receiveAsync"
    /\ eventQueue' = Tail(eventQueue)
    /\ stack' = Append(stack, ReceiveAsyncFrame(Head(eventQueue).port,
                                                Head(eventQueue).sample, TRUE, FALSE))
    /\ UNCHANGED << portVars, itcVars, execVars, stackDepth, mainPendingReceives,
                    wiringVars, apiVars, transmitted, delivered >>

----------------------------------------------------------------------------
(* Filters.hpp: FilterState, and the order in which a filter goes through it *)

Chain ==
    << "CONSTRUCTING", "CONSTRUCTED", "INITIALIZING", "INITIALIZED", "OPENING",
       "OPENED", "STARTING", "ACTIVE", "STOPPING", "OPENED", "CLOSING",
       "INITIALIZED", "DEINITIALIZING", "DESTRUCTING", "DESTRUCTED" >>

\* the operations the orchestrator performs on every filter, in this order
Operations == << "init", "open", "start", "stop", "close", "deinit" >>

\* the states a filter goes through in an operation
\* operations that enter the resting state without a transient state
PathDirect(op) ==
    CASE op = "init" -> << "CONSTRUCTED", "INITIALIZED" >>
      [] op = "open" -> << "INITIALIZED", "OPENED" >>
      [] op = "start" -> << "OPENED", "ACTIVE" >>
      [] op = "stop" -> << "ACTIVE", "OPENED" >>
      [] op = "close" -> << "OPENED", "INITIALIZED" >>
      [] op = "deinit" -> << "INITIALIZED", "DESTRUCTED" >>

Path(op) ==
    CASE op = "init"   -> << "CONSTRUCTED", "INITIALIZING", "INITIALIZED" >>
      [] op = "open"   -> << "INITIALIZED", "OPENING", "OPENED" >>
      [] op = "start"  -> << "OPENED", "STARTING", "ACTIVE" >>
      [] op = "stop"   -> << "ACTIVE", "STOPPING", "OPENED" >>
      [] op = "close"  -> << "OPENED", "CLOSING", "INITIALIZED" >>
      [] op = "deinit" -> << "INITIALIZED", "DEINITIALIZING", "DESTRUCTING",
                             "DESTRUCTED" >>

\* the callback of Filter that runs in a transient state
CallbackOf(state) ==
    CASE state = "INITIALIZING"   -> "onInit"
      [] state = "OPENING"        -> "onOpen"
      [] state = "STARTING"       -> "onStart"
      [] state = "STOPPING"       -> "onStop"
      [] state = "CLOSING"        -> "onClose"
      [] state = "DEINITIALIZING" -> "onDeinit"
      [] OTHER                    -> "none"

\* the position of ACTIVE in the chain
ActiveAt == CHOOSE i \in 1..Len(Chain) : Chain[i] = "ACTIVE"

\* BaseFilterEnvironmentD after the constructor of BaseFilterEnvironment,
\* with the dynamic ports the environment holds
Environment(dynIn, dynOut) ==
    [dynamicInputPortsSupported |-> FALSE, dynamicOutputPortsSupported |-> FALSE,
     dynamicInputPorts |-> dynIn, dynamicOutputPorts |-> dynOut, declared |-> 0]

----------------------------------------------------------------------------
(* State after construction of the ports, the ITCs and the executor *)

InitLoaded(main, conn, w, dyn, samples, seconds, st, b, pending, posted) ==
    /\ queue = [p \in Ports |-> << >>]
    /\ queueSizeSamples = [p \in Ports |-> SetQueueSize(samples, seconds)[1]]
    /\ queueSizeSeconds = [p \in Ports |-> SetQueueSize(samples, seconds)[2]]
    /\ interthreadDynamicQueue = [p \in Ports |-> dyn]
    /\ semaphoreN = [p \in Ports |-> -1]
    /\ semaphore = [p \in ItcPorts |-> w]
    /\ itcStopped = [p \in ItcPorts |-> TRUE]
    /\ width = [p \in ItcPorts |-> w]
    /\ senderPc = [p \in ItcPorts |-> "idle"]
    /\ pendingReceives = pending
    /\ blockedFilters = {}
    /\ stopped = FALSE
    /\ numNotifiesInQueue = Len(posted)
    /\ eventQueue = posted
    /\ stack = << >>
    /\ stackDepth = 0
    /\ mainPendingReceives = << >>
    /\ isMainThread = main
    /\ connected = conn
    /\ requested = << samples, seconds >>
    /\ stamps = st
    /\ budget = b
    /\ transmitted = [p \in Ports |-> 0]
    /\ emitted = [p \in ItcPorts |-> << >>]
    /\ delivered = [p \in Ports |-> << >>]
    /\ history = [p \in Ports |-> << >>]
    /\ errorLog = << >>
    /\ lastCall = NoCall
    /\ popped = << >>
    /\ numCalled = [p \in Ports |-> 0]
    /\ pendingReceivesMutex = Free
    /\ clearPc = "idle"

\* no event is pending and no multiStep() is posted
InitEngine(main, conn, w, dyn, samples, seconds, st, b) ==
    InitLoaded(main, conn, w, dyn, samples, seconds, st, b, << >>, << >>)

\* the filters have been constructed, initialized, opened and started
InitActive ==
    /\ filterState = [f \in Filters |-> "ACTIVE"]
    /\ environment = [f \in Filters |-> Environment(FALSE, FALSE)]
    /\ phase = CHOOSE k \in 1..Len(Operations) : Operations[k] = "stop"
    /\ trail = [f \in Filters |-> SubSeq(Chain, 1, ActiveAt)]

InitState(main, conn, w, dyn, samples, seconds, st, b) ==
    /\ InitEngine(main, conn, w, dyn, samples, seconds, st, b)
    /\ InitActive

----------------------------------------------------------------------------
(* The executor specification: the ITCs hand their samples to the executor  *)
(* of the receiving thread, and same-thread edges go through the executor.  *)
(* The ITCs are started and stay started, the executor is not cleared.      *)

Init ==
    \E main \in BOOLEAN, w \in 1..MaxWidth :
        InitState(main, ItcPorts \cup ExecPorts, w, FALSE, 1, -1, Counting, MaxSamples)

Next ==
    \/ DispatchNotify
    \/ DispatchMultiStep
    \/ MultiStepLoop
    \/ StepReturn
    \/ ReceiveAsyncStart
    \/ ReceiveAsyncYielded
    \/ ReceiveAsyncAfterCallback
    \/ ReceiveAsyncDrain
    \/ \E q \in Ports : CallbackTransmitExec(q)
    \/ CallbackStep
    \/ CallbackReturn
    \/ \E p \in ItcPorts : ItcTransmit(p)
    \/ \E p \in ItcPorts : ItcCheckStopped(p)
    \/ \E p \in ItcPorts : ItcAcquireTimeout(p)
    \/ \E p \in ItcPorts : ItcEmitExecutor(p)
    \/ \E p \in ItcPorts : SetStopped(p, FALSE)

Spec == Init /\ [][Next]_vars

----------------------------------------------------------------------------
(* The inter-thread specification: the wiring of OutputPortInterface.cpp.   *)
(* transmitInterThread is connected to the receiveAsync slot (a queued      *)
(* call on the receiving thread), same-thread edges are direct connections  *)
(* to receiveSync.  The ITCs are started and stopped at any time.           *)

\* the sending thread of an ITC inside InterThreadConnection::receiveSample
Sender(p) ==
    \/ ItcCheckStopped(p)
    \/ ItcAcquireTimeout(p)
    \/ ItcEmitQueued(p)

BurstSender == \E p \in ItcPorts : Sender(p)

\* (queueSizeSamples, queueSizeSeconds) the ports are constructed with, and
\* the timestamps of the samples: one sample, or one second of samples
QueueConfigs(last) ==
    { << 1, -1, Counting >>, << 0, 1, Counting >>, << 0, 1, Jumping(last) >> }

InitItc ==
    \E main \in BOOLEAN, w \in 1..MaxWidth, dyn \in BOOLEAN,
       c \in QueueConfigs(MaxItcSamples) :
        InitState(main, ItcPorts \cup DirectPorts, w, dyn, c[1], c[2], c[3],
                  MaxItcSamples)

NextItc ==
    \/ DispatchReceiveAsync
    \/ ReceiveAsyncStart
    \/ ReceiveAsyncYielded
    \/ ReceiveAsyncTryAcquire
    \/ ReceiveAsyncTransmit
    \/ ReceiveAsyncAfterCallback
    \/ ReceiveAsyncDrain
    \/ \E q \in Ports : CallbackTransmitDirect(q)
    \/ CallbackReturn
    \/ \E p \in ItcPorts : ItcTransmit(p)
    \/ \E p \in ItcPorts : ItcCheckStopped(p)
    \/ \E p \in ItcPorts : ItcAcquireTimeout(p)
    \/ \E p \in ItcPorts : ItcEmitQueued(p)
    \/ \E p \in ItcPorts, b \in BOOLEAN : SetStopped(p, b)

SpecItc == InitItc /\ [][NextItc]_vars

\* the same with sending threads that are scheduled fairly
SpecItcFair == SpecItc /\ \A p \in ItcPorts : WF_vars(Sender(p))

\* the same graph with enough samples for a direct cycle A -> B -> A to come
\* back to the port it started from
InitCycle ==
    \E main \in BOOLEAN, w \in 1..MaxWidth, dyn \in BOOLEAN,
       c \in QueueConfigs(MaxSamples) :
        InitState(main, ItcPorts \cup DirectPorts, w, dyn, c[1], c[2], c[3],
                  MaxSamples)

SpecCycle == InitCycle /\ [][NextItc]_vars

\* one inter-thread edge into a port with the dynamic queue; the queue is
\* bounded by samples or by one second, in which the source may pause
DynamicConfigs ==
    { << BurstQueueSamples, -1, Counting >>, << 0, 1, Counting >>,
      << 0, 1, Jumping(MaxDynSamples) >> }

InitDynamic ==
    \E main \in BOOLEAN, w \in 1..MaxWidth, c \in DynamicConfigs :
        InitState(main, {"a_itc"}, w, TRUE, c[1], c[2], c[3], MaxDynSamples)

NextDynamic ==
    \/ DispatchReceiveAsync
    \/ ReceiveAsyncStart
    \/ ReceiveAsyncYielded
    \/ ReceiveAsyncTryAcquire
    \/ ReceiveAsyncTransmit
    \/ ReceiveAsyncAfterCallback
    \/ ReceiveAsyncDrain
    \/ CallbackReturn
    \/ \E p \in ItcPorts : ItcTransmit(p)
    \/ \E p \in ItcPorts : ItcCheckStopped(p)
    \/ \E p \in ItcPorts : ItcAcquireTimeout(p)
    \/ \E p \in ItcPorts : ItcEmitQueued(p)
    \/ \E p \in ItcPorts, b \in BOOLEAN : SetStopped(p, b)

SpecDynamic == InitDynamic /\ [][NextDynamic]_vars

----------------------------------------------------------------------------
(* The burst specification: one inter-thread edge of width BurstWidth into  *)
(* a port with the dynamic queue and queueSizeSamples = BurstQueueSamples.  *)
(* The ITC is started and stays started; both threads are scheduled fairly. *)
(* The queue is bounded by samples only and never shrinks, so receiveAsync  *)
(* never comes to its tryAcquire loop.                                      *)

InitBurst ==
    \E main \in BOOLEAN :
        InitState(main, {"a_itc"}, BurstWidth, TRUE, BurstQueueSamples, -1, Counting,
                  MaxBurst)

\* the receiving thread: the event loop and everything it calls
BurstReceiver ==
    \/ DispatchReceiveAsync
    \/ ReceiveAsyncStart
    \/ ReceiveAsyncYielded
    \/ ReceiveAsyncTransmit
    \/ ReceiveAsyncAfterCallback
    \/ ReceiveAsyncDrain
    \/ CallbackReturn

NextBurst ==
    \/ BurstReceiver
    \/ BurstSender
    \/ \E p \in ItcPorts : ItcTransmit(p)
    \/ \E p \in ItcPorts : SetStopped(p, FALSE)

SpecBurst ==
    InitBurst /\ [][NextBurst]_vars /\ WF_vars(BurstReceiver) /\ WF_vars(BurstSender)

----------------------------------------------------------------------------
(* Ports.cpp: the receiveAsync of the single-file implementation of the     *)
(* ports.  It has no main-thread guard, and with the static queue it        *)
(* releases the permit before it calls transmit().                          *)

LegacyReceiveAsyncStart ==
    /\ Running("receiveAsync", "start")
    /\ LET p == Top.port
           q == AddToQueue(queue[p], queueSizeSamples[p], queueSizeSeconds[p], Top.sample)
           delta == Delta(p, q)
       IN  /\ queue' = [queue EXCEPT ![p] = q]
           /\ history' = [history EXCEPT ![p] = Append(@, Top.sample)]
           /\ IF ~interthreadDynamicQueue[p]
              THEN /\ semaphore' = [semaphore EXCEPT ![p] = @ + 1]
                   /\ stack' = Below \o << [Top EXCEPT !.pc = "transmit"] >>
                   /\ UNCHANGED semaphoreN
              ELSE IF delta <= 0
              THEN /\ semaphore' = [semaphore EXCEPT ![p] = @ + (1 - delta)]
                   /\ semaphoreN' = [semaphoreN EXCEPT ![p] = SemaphoreN(p) + (-delta)]
                   /\ stack' = Below \o << [Top EXCEPT !.pc = "transmit"] >>
              ELSE /\ semaphoreN' = [semaphoreN EXCEPT ![p] = SemaphoreN(p) - 1]
                   /\ stack' = Below \o << [Top EXCEPT !.pc = "tryAcquire",
                                                        !.n = delta - 1] >>
                   /\ UNCHANGED semaphore
    /\ UNCHANGED << queueSizeSamples, queueSizeSeconds, interthreadDynamicQueue,
                    itcStopped, width, senderPc, emitted, execVars, eventQueue,
                    stackDepth, mainPendingReceives, wiringVars, apiVars, transmitted,
                    delivered >>

\* receiveAsync of Ports.cpp returns after transmit()
LegacyReceiveAsyncReturn ==
    /\ Running("receiveAsync", "inCallbackDynamic")
    /\ stack' = Below
    /\ UNCHANGED << portVars, itcVars, execVars, eventQueue, stackDepth,
                    mainPendingReceives, wiringVars, apiVars, transmitted, delivered >>

\* InterThreadConnection::InterThreadConnection: InterThreadConnectionD(1)
LegacyWidth == 1

InitLegacy ==
    \E dyn \in BOOLEAN, c \in QueueConfigs(MaxItcSamples) :
        InitState(FALSE, ItcPorts \cup DirectPorts, LegacyWidth, dyn, c[1], c[2], c[3],
                  MaxItcSamples)

NextLegacy ==
    \/ DispatchReceiveAsync
    \/ LegacyReceiveAsyncStart
    \/ ReceiveAsyncTryAcquire
    \/ ReceiveAsyncTransmit
    \/ LegacyReceiveAsyncReturn
    \/ \E q \in Ports : CallbackTransmitDirect(q)
    \/ CallbackReturn
    \/ \E p \in ItcPorts : ItcTransmit(p)
    \/ \E p \in ItcPorts : ItcCheckStopped(p)
    \/ \E p \in ItcPorts : ItcAcquireTimeout(p)
    \/ \E p \in ItcPorts : ItcEmitQueued(p)
    \/ \E p \in ItcPorts, b \in BOOLEAN : SetStopped(p, b)

SpecLegacy == InitLegacy /\ [][NextLegacy]_vars

----------------------------------------------------------------------------
(* The queue specification: one input port with every configuration of its  *)
(* queue receives samples with arbitrary timestamps through receiveSync and  *)
(* through receiveAsync (without a semaphore).                               *)

QueuePort == "a_dir"

\* timestamps around the time bounds
StampChoices ==
    { 0, 1 } \cup { s * TIMESTAMP_RES_PER_SECOND + d : s \in 1..MaxQueueSeconds, d \in {0, 1} }

\* a source emits transmitSample from the event loop: the receiveSync slot
ReceiveSyncCall(ts) ==
    /\ stack = << >>
    /\ Len(history[QueuePort]) < MaxInserts
    /\ EnterCallback(QueuePort, ts)
    /\ stack' = << CallbackFrame(QueuePort, ts) >>
    /\ UNCHANGED << queueSizeSamples, queueSizeSeconds, interthreadDynamicQueue,
                    semaphoreN, itcVars, execVars, eventQueue, stackDepth,
                    mainPendingReceives, wiringVars, apiVars, transmitted >>

\* the event loop calls receiveAsync(sample, 0)
ReceiveAsyncCall(ts) ==
    /\ stack = << >>
    /\ Len(history[QueuePort]) < MaxInserts
    /\ stack' = << ReceiveAsyncFrame(QueuePort, ts, FALSE, FALSE) >>
    /\ UNCHANGED << portVars, itcVars, execVars, eventQueue, stackDepth,
                    mainPendingReceives, wiringVars, apiVars, transmitted, delivered >>

InitQueue ==
    \E main \in BOOLEAN, k \in (-1)..MaxQueueSamples, t \in (-1)..MaxQueueSeconds :
        InitState(main, {QueuePort}, 1, FALSE, k, t, Counting, MaxInserts)

NextQueue ==
    \/ \E ts \in StampChoices : ReceiveSyncCall(ts)
    \/ \E ts \in StampChoices : ReceiveAsyncCall(ts)
    \/ ReceiveAsyncStart
    \/ ReceiveAsyncYielded
    \/ ReceiveAsyncAfterCallback
    \/ CallbackReturn

SpecQueue == InitQueue /\ [][NextQueue]_vars

----------------------------------------------------------------------------
(* The port specification: the operations of an input port and of the       *)
(* output port connected to it directly are called from the event loop, on  *)
(* the ports' thread and on another one, while the filter that owns the     *)
(* output port is started and stopped.                                      *)

\* the thread test in front of getData
GetDataOnThread(onThread, q, delaySamples, delaySeconds) ==
    IF ~onThread THEN "unexpected_thread" ELSE GetData(q, delaySamples, delaySeconds)

\* the calls made so far that reached the queue or were refused
CallsLeft == Len(history[QueuePort]) + Len(errorLog) + transmitted[QueuePort] < MaxInserts

\* InputPortInterface::getData(delaySamples, delaySeconds), from the event
\* loop or from inside onPortDataChanged
GetDataCall(onThread, delaySamples, delaySeconds) ==
    /\ stack = << >> \/ Running("callback", "run")
    /\ lastCall' = Call("getData", QueuePort, onThread,
                        << delaySamples, delaySeconds >>, queue[QueuePort],
                        GetDataOnThread(onThread, queue[QueuePort],
                                        delaySamples, delaySeconds))
    /\ UNCHANGED << portVars, itcVars, execVars, threadVars, wiringVars, filterState,
                    errorLog, ghostVars, transmitted, delivered >>

\* InputPortInterface::receiveSync(sample): the thread test is inside the
\* try block, its exception is caught and logged
ReceiveSyncApi(onThread, ts) ==
    /\ stack = << >>
    /\ CallsLeft
    /\ IF onThread
       THEN /\ EnterCallback(QueuePort, ts)
            /\ stack' = << CallbackFrame(QueuePort, ts) >>
            /\ UNCHANGED errorLog
       ELSE /\ errorLog' = Append(errorLog, << "receiveSync", QueuePort, ts >>)
            /\ UNCHANGED << queue, history, delivered, stack >>
    /\ lastCall' = Call("receiveSync", QueuePort, onThread, << ts >>,
                        queue[QueuePort], "returned")
    /\ UNCHANGED << queueSizeSamples, queueSizeSeconds, interthreadDynamicQueue,
                    semaphoreN, itcVars, execVars, eventQueue, stackDepth,
                    mainPendingReceives, wiringVars, filterState, ghostVars,
                    transmitted >>

\* InputPortInterface::receiveAsync(sample, 0): the same try block; nothing
\* is buffered for the main thread while the event loop is idle
ReceiveAsyncApi(onThread, ts) ==
    /\ stack = << >>
    /\ CallsLeft
    /\ IF onThread
       THEN /\ stack' = << ReceiveAsyncFrame(QueuePort, ts, FALSE, FALSE) >>
            /\ UNCHANGED errorLog
       ELSE /\ errorLog' = Append(errorLog, << "receiveAsync", QueuePort, ts >>)
            /\ UNCHANGED stack
    /\ lastCall' = Call("receiveAsync", QueuePort, onThread, << ts >>,
                        queue[QueuePort], "returned")
    /\ UNCHANGED << portVars, itcVars, execVars, eventQueue, stackDepth,
                    mainPendingReceives, wiringVars, filterState, ghostVars,
                    transmitted, delivered >>

\* OutputPortInterface::transmit(sample) on the output port that is
\* connected directly to the input port: the thread test, then the emit
\* that runs the receiveSync slot
TransmitCall(onThread, ts) ==
    /\ stack = << >>
    /\ CallsLeft
    /\ IF onThread
       THEN /\ EnterCallback(QueuePort, ts)
            /\ stack' = << CallbackFrame(QueuePort, ts) >>
            /\ transmitted' = [transmitted EXCEPT ![QueuePort] = @ + 1]
       ELSE UNCHANGED << queue, history, delivered, stack, transmitted >>
    /\ lastCall' = Call("transmit", QueuePort, onThread,
                        << ts, filterState[SourceOf(QueuePort)] >>, queue[QueuePort],
                        IF onThread THEN "returned" ELSE "unexpected_thread")
    /\ UNCHANGED << queueSizeSamples, queueSizeSeconds, interthreadDynamicQueue,
                    semaphoreN, itcVars, execVars, eventQueue, stackDepth,
                    mainPendingReceives, wiringVars, filterState, errorLog,
                    ghostVars >>

\* the filter that owns the output port is stopped (ACTIVE -> OPENED) or
\* started (OPENED -> ACTIVE)
SetFilterState(f, st) ==
    /\ stack = << >>
    /\ filterState[f] # st
    /\ filterState' = [filterState EXCEPT ![f] = st]
    /\ UNCHANGED << portVars, itcVars, execVars, threadVars, wiringVars, errorLog,
                    lastCall, ghostVars, transmitted, delivered >>

\* the queue bounded by one sample, by MaxQueueSamples samples or by one second
PortConfigs == { << 1, -1 >>, << MaxQueueSamples, -1 >>, << 0, 1 >> }

InitPort ==
    \E main \in BOOLEAN, c \in PortConfigs :
        InitState(main, {QueuePort}, 1, FALSE, c[1], c[2], Counting, MaxInserts)

\* the timestamps of the samples passed to the calls
PortStamps == { 1, TIMESTAMP_RES_PER_SECOND + 2 }

NextPort ==
    \/ \E on \in BOOLEAN, ds \in {-1, 0}, dsec \in {-1, 0} : GetDataCall(on, ds, dsec)
    \/ \E on \in BOOLEAN, ts \in PortStamps : ReceiveSyncApi(on, ts)
    \/ \E on \in BOOLEAN, ts \in PortStamps : ReceiveAsyncApi(on, ts)
    \/ \E on \in BOOLEAN, ts \in PortStamps : TransmitCall(on, ts)
    \/ \E st \in {"OPENED", "ACTIVE"} : SetFilterState(SourceOf(QueuePort), st)
    \/ ReceiveAsyncStart
    \/ ReceiveAsyncYielded
    \/ ReceiveAsyncAfterCallback
    \/ CallbackReturn

SpecPort == InitPort /\ [][NextPort]_vars

----------------------------------------------------------------------------
(* The getData specification: a port with every configuration of its queue  *)
(* receives samples with arbitrary timestamps, and getData is called with   *)
(* every pair of arguments.                                                 *)

\* the queue bounded by one sample (both bounds not positive), by
\* MaxQueueSamples samples or by 1 .. MaxQueueSeconds seconds
GetDataConfigs ==
    { << -1, -1 >>, << MaxQueueSamples, -1 >> } \cup { << 0, t >> : t \in 1..MaxQueueSeconds }

\* timestamps at both ends of a second
GetDataStamps == { 0, 1, TIMESTAMP_RES_PER_SECOND, TIMESTAMP_RES_PER_SECOND + 1 }

InitGetData ==
    \E c \in GetDataConfigs :
        InitState(FALSE, {QueuePort}, 1, FALSE, c[1], c[2], Counting, MaxInserts)

NextGetData ==
    \/ \E ds \in (-1)..MaxInserts, dsec \in (-1)..MaxQueueSeconds :
            GetDataCall(TRUE, ds, dsec)
    \/ \E ts \in GetDataStamps : ReceiveSyncApi(TRUE, ts)
    \/ CallbackReturn

SpecGetData == InitGetData /\ [][NextGetData]_vars

----------------------------------------------------------------------------
(* The unbounded specification: two ITCs of width 0.  The signal of the ITC *)
(* into a_itc is connected to the receiveAsync slot, the signal of the ITC  *)
(* into b_itc goes to the executor of the receiving thread.  The ITCs are   *)
(* started and stopped at any time.                                         *)

ViaExecutor(p) == p = "b_itc"

InitUnbounded ==
    \E main \in BOOLEAN, dyn \in BOOLEAN, c \in QueueConfigs(MaxItcSamples) :
        InitState(main, ItcPorts, 0, dyn, c[1], c[2], c[3], MaxItcSamples)

NextUnbounded ==
    \/ DispatchNotify
    \/ DispatchMultiStep
    \/ MultiStepLoop
    \/ StepReturn
    \/ DispatchReceiveAsyncUnbounded
    \/ ReceiveAsyncStart
    \/ ReceiveAsyncYielded
    \/ ReceiveAsyncAfterCallback
    \/ ReceiveAsyncDrain
    \/ CallbackReturn
    \/ \E p \in ItcPorts : ItcTransmit(p)
    \/ \E p \in ItcPorts : ItcCheckStopped(p)
    \/ \E p \in ItcPorts : (~ViaExecutor(p)) /\ ItcEmitUnboundedQueued(p)
    \/ \E p \in ItcPorts : ViaExecutor(p) /\ ItcEmitUnboundedExecutor(p)
    \/ \E p \in ItcPorts, b \in BOOLEAN : SetStopped(p, b)

SpecUnbounded == InitUnbounded /\ [][NextUnbounded]_vars

----------------------------------------------------------------------------
(* The lifecycle specification: the filters are constructed, the            *)
(* orchestrator performs its operations on every filter, the callbacks of   *)
(* filter A may fail, and the flag of the input ports is written at any     *)
(* time.  No samples are transmitted.                                       *)

\* the states in which setInterthreadDynamicQueue accepts a new value
Configurable == { "CONSTRUCTING", "CONSTRUCTED", "INITIALIZING", "INITIALIZED" }

\* the refused writes logged so far
Refused == Cardinality({ i \in 1..Len(errorLog) :
                            errorLog[i][1] = "setInterthreadDynamicQueue" })

\* a setter without the test of the filter's state
SetInterthreadDynamicQueueAlways(p, enabled) ==
    /\ stack = << >>
    /\ p \in connected
    /\ interthreadDynamicQueue' = [interthreadDynamicQueue EXCEPT ![p] = enabled]
    /\ lastCall' = Call("setInterthreadDynamicQueue", p, TRUE, << enabled >>,
                        << interthreadDynamicQueue[p],
                           filterState[FilterOf(p)] \in Configurable >>, "returned")
    /\ UNCHANGED << queue, queueSizeSamples, queueSizeSeconds, semaphoreN, history,
                    itcVars, execVars, threadVars, wiringVars, filterState, ghostVars,
                    transmitted, delivered, errorLog >>

\* InputPortInterface::setInterthreadDynamicQueue(enabled)
SetInterthreadDynamicQueue(p, enabled) ==
    /\ stack = << >>
    /\ p \in connected
    /\ LET st == filterState[FilterOf(p)]
           differs == enabled # interthreadDynamicQueue[p]
       IN  /\ (differs /\ st \notin Configurable) => Refused < MaxRefused
           /\ interthreadDynamicQueue' =
                    IF differs /\ st \in Configurable
                    THEN [interthreadDynamicQueue EXCEPT ![p] = enabled]
                    ELSE interthreadDynamicQueue
           /\ errorLog' =
                    IF differs /\ st \notin Configurable
                    THEN Append(errorLog, << "setInterthreadDynamicQueue", p, enabled >>)
                    ELSE errorLog
           /\ lastCall' = Call("setInterthreadDynamicQueue", p, TRUE, << enabled >>,
                               << interthreadDynamicQueue[p], st \in Configurable >>,
                               "returned")
    /\ UNCHANGED << queue, queueSizeSamples, queueSizeSeconds, semaphoreN, history,
                    itcVars, execVars, threadVars, wiringVars, filterState, ghostVars,
                    transmitted, delivered >>

\* BaseFilterEnvironment::setDynamicPortsSupported: the members afterwards
SetDynamicPortsSupported(env, dynInPortsSupported, dynOutPortsSupported) ==
    [env EXCEPT !.dynamicInputPortsSupported = dynInPortsSupported,
                !.dynamicOutputPortsSupported = dynOutPortsSupported,
                !.declared = @ + 1]

\* a declaration that is never checked against the ports of the filter
NeverUnsupported(env, dynInPortsSupported, dynOutPortsSupported) == FALSE

\* BaseFilterEnvironment::setDynamicPortsSupported: it ends with an exception
DynamicPortsUnsupported(env, dynInPortsSupported, dynOutPortsSupported) ==
    \/ (~dynInPortsSupported) /\ env.dynamicInputPorts
    \/ (~dynOutPortsSupported) /\ env.dynamicOutputPorts

\* BaseFilterEnvironment::getDynamicPortsSupported
GetDynamicPortsSupported(env) ==
    << env.dynamicInputPortsSupported, env.dynamicOutputPortsSupported >>

\* Filter::Filter(dynInPortsSupported, dynOutPortsSupported, environment); a
\* filter whose constructor has returned is CONSTRUCTED
FilterConstructor(f, dynInPortsSupported, dynOutPortsSupported) ==
    /\ stack = << >>
    /\ filterState[f] = "CONSTRUCTING"
    /\ environment[f].declared = 0
    /\ environment' = [environment EXCEPT ![f] =
            SetDynamicPortsSupported(@, dynInPortsSupported, dynOutPortsSupported)]
    /\ LET throws == DynamicPortsUnsupported(environment[f], dynInPortsSupported,
                                             dynOutPortsSupported)
       IN  /\ filterState' = IF throws THEN filterState
                             ELSE [filterState EXCEPT ![f] = "CONSTRUCTED"]
           /\ trail' = IF throws THEN trail
                       ELSE [trail EXCEPT ![f] = Append(@, "CONSTRUCTED")]
           /\ lastCall' = Call("Filter", NoPort, TRUE,
                               << f, dynInPortsSupported, dynOutPortsSupported >>, << >>,
                               IF throws THEN "runtime_error" ELSE "returned")
    /\ UNCHANGED << portVars, itcVars, execVars, threadVars, wiringVars, errorLog,
                    popped, phase, numCalled, mutexVars, transmitted, delivered >>

\* the operation the orchestrator is performing
Operation == Operations[phase]

\* the position of a filter's state in the path of the operation, 0 if the
\* state is the end of the path
PositionIn(path, state) ==
    IF \E i \in 1..(Len(path) - 1) : path[i] = state
    THEN CHOOSE i \in 1..(Len(path) - 1) : path[i] = state
    ELSE 0

\* the orchestrator goes on to its next operation when every filter has
\* come to the end of this one
PhaseAfter(states) ==
    IF \A f \in Filters : states[f] = Last(Path(Operation)) THEN phase + 1 ELSE phase

\* filter f goes to the next state of the path of the operation
Advance(f) ==
    LET path == Path(Operation)
        next == path[PositionIn(path, filterState[f]) + 1]
        states == [filterState EXCEPT ![f] = next]
    IN  /\ filterState' = states
        /\ trail' = [trail EXCEPT ![f] = Append(@, next)]
        /\ phase' = PhaseAfter(states)

\* a filter is inside a lifecycle callback or its destructor
InTransition(f) ==
    filterState[f] \in { "INITIALIZING", "OPENING", "STARTING", "STOPPING", "CLOSING",
                         "DEINITIALIZING", "DESTRUCTING" }

\* the orchestrator begins the operation on filter f, on the filter's
\* thread: the transient state is entered and the callback is called
LifecycleBegin(f) ==
    /\ stack = << >>
    /\ phase <= Len(Operations)
    /\ filterState[f] = Path(Operation)[1]
    /\ \A g \in Filters : ~InTransition(g)
    /\ Advance(f)
    /\ lastCall' = IF CallbackOf(filterState'[f]) = "none" THEN lastCall
                   ELSE Call(CallbackOf(filterState'[f]), NoPort, TRUE, << f >>,
                             << filterState'[f] >>, "running")
    /\ UNCHANGED << portVars, itcVars, execVars, threadVars, wiringVars, errorLog,
                    popped, environment, numCalled, mutexVars, transmitted, delivered >>

\* the callback returns: the next state of the path is entered
LifecycleReturn(f) ==
    /\ phase <= Len(Operations)
    /\ CallbackOf(filterState[f]) # "none"
    /\ Advance(f)
    /\ lastCall' = Call(CallbackOf(filterState[f]), NoPort, TRUE, << f >>,
                        << filterState[f] >>, "returned")
    /\ UNCHANGED << portVars, itcVars, execVars, threadVars, wiringVars, errorLog,
                    popped, environment, numCalled, mutexVars, transmitted, delivered >>

\* the filters whose lifecycle callbacks fail (TestExceptionFilter)
Failing == { "A" }

\* the failed callbacks logged so far
Thrown == Cardinality({ i \in 1..Len(errorLog) : errorLog[i][2] \in Filters })

\* the constructor arguments of a filter: only a failing filter declares
\* support of dynamic ports
Declares(f) == IF f \in Failing THEN BOOLEAN \X BOOLEAN ELSE { << FALSE, FALSE >> }

\* an exception that is logged and leaves the filter in the transient state
LifecycleThrowStuck(f) ==
    /\ phase <= Len(Operations)
    /\ f \in Failing
    /\ Thrown < MaxThrown
    /\ CallbackOf(filterState[f]) # "none"
    /\ errorLog' = Append(errorLog, << CallbackOf(filterState[f]), f, filterState[f] >>)
    /\ lastCall' = Call(CallbackOf(filterState[f]), NoPort, TRUE, << f >>,
                        << filterState[f] >>, "runtime_error")
    /\ UNCHANGED << portVars, itcVars, execVars, threadVars, wiringVars, popped,
                    lifecycleVars, mutexVars, filterState, numCalled, transmitted, delivered >>

\* the callback ends with an exception: it is caught and logged, and the
\* next state of the path is entered all the same
LifecycleThrow(f) ==
    /\ phase <= Len(Operations)
    /\ f \in Failing
    /\ Thrown < MaxThrown
    /\ CallbackOf(filterState[f]) # "none"
    /\ Advance(f)
    /\ errorLog' = Append(errorLog, << CallbackOf(filterState[f]), f, filterState[f] >>)
    /\ lastCall' = Call(CallbackOf(filterState[f]), NoPort, TRUE, << f >>,
                        << filterState[f] >>, "runtime_error")
    /\ UNCHANGED << portVars, itcVars, execVars, threadVars, wiringVars, popped,
                    environment, numCalled, mutexVars, transmitted, delivered >>

\* the destructor of the filter has run
LifecycleDestruct(f) ==
    /\ phase <= Len(Operations)
    /\ filterState[f] = "DESTRUCTING"
    /\ Advance(f)
    /\ UNCHANGED << portVars, itcVars, execVars, threadVars, wiringVars, errorLog,
                    lastCall, popped, environment, numCalled, mutexVars, transmitted, delivered >>

\* filter A is constructed in an environment with or without dynamic ports
InitLifecycle ==
    /\ InitEngine(FALSE, ItcPorts, 1, FALSE, 1, -1, Counting, 0)
    /\ filterState = [f \in Filters |-> "CONSTRUCTING"]
    /\ \E dynIn \in BOOLEAN, dynOut \in BOOLEAN :
            environment = [f \in Filters |->
                              IF f \in Failing THEN Environment(dynIn, dynOut)
                              ELSE Environment(FALSE, FALSE)]
    /\ phase = 1
    /\ trail = [f \in Filters |-> << "CONSTRUCTING" >>]

NextLifecycle ==
    \/ \E f \in Filters : \E d \in Declares(f) : FilterConstructor(f, d[1], d[2])
    \/ \E p \in ItcPorts, enabled \in BOOLEAN : SetInterthreadDynamicQueue(p, enabled)
    \/ \E f \in Filters : LifecycleBegin(f)
    \/ \E f \in Filters : LifecycleReturn(f)
    \/ \E f \in Filters : LifecycleThrow(f)
    \/ \E f \in Filters : LifecycleDestruct(f)

SpecLifecycle == InitLifecycle /\ [][NextLifecycle]_vars

\* the orchestrator constructs every filter and goes on with its operations
FairLifecycle ==
    /\ \A f \in Filters : WF_vars(\E d \in Declares(f) : FilterConstructor(f, d[1], d[2]))
    /\ WF_vars(\E f \in Filters : LifecycleBegin(f))
    /\ WF_vars(\E f \in Filters : LifecycleReturn(f) \/ LifecycleThrow(f))
    /\ WF_vars(\E f \in Filters : LifecycleDestruct(f))

\* the operations of the orchestrator alone, with a fair orchestrator
NextOperations ==
    \/ \E f \in Filters : \E d \in Declares(f) : FilterConstructor(f, d[1], d[2])
    \/ \E f \in Filters : LifecycleBegin(f)
    \/ \E f \in Filters : LifecycleReturn(f)
    \/ \E f \in Filters : LifecycleThrow(f)
    \/ \E f \in Filters : LifecycleDestruct(f)

SpecOperations == InitLifecycle /\ [][NextOperations]_vars /\ FairLifecycle

----------------------------------------------------------------------------
(* The merge specification: the executor specification with a second edge   *)
(* into every input port.  Port a_itc is fed by its ITC and by a            *)
(* same-thread edge out of filter B, port b_itc by its ITC and by a         *)
(* same-thread edge out of filter A.                                        *)

\* the input port a same-thread edge ends in
MergePort(q) == IF q = "a_ex" THEN "a_itc" ELSE "b_itc"

\* the timestamp of the n-th sample of a same-thread edge, apart from the
\* timestamps of the ITC's samples
MergeStamp(n) == stamps[n] + MaxSamples + MaxBurst

\* transmit over the same-thread edge q: registerPendingRcvSync(inputPort,
\* sample) with the input port the edge ends in; step(fromFilter) follows
CallbackTransmitMerge(q) ==
    /\ Running("callback", "run")
    /\ q \in ExecPorts
    /\ MergePort(q) \in connected
    /\ SourceOf(q) = FilterOf(Top.port)
    /\ Budget
    /\ transmitted' = [transmitted EXCEPT ![q] = @ + 1]
    /\ pendingReceives' = RegisterPendingRcvSync(pendingReceives, MergePort(q),
                                               MergeStamp(transmitted[q] + 1))
    /\ numNotifiesInQueue' = IF ~stopped THEN NotifyCount(numNotifiesInQueue)
                             ELSE numNotifiesInQueue
    /\ eventQueue' = IF ~stopped THEN eventQueue \o NotifyPosts(numNotifiesInQueue)
                     ELSE eventQueue
    /\ stack' = Below \o << [Top EXCEPT !.pc = "callStep", !.n = @ + 1] >>
    /\ UNCHANGED << portVars, itcVars, blockedFilters, stopped, stackDepth,
                    mainPendingReceives, wiringVars, apiVars, delivered >>

InitMerge ==
    \E main \in BOOLEAN, w \in 1..MaxWidth :
        InitState(main, ItcPorts, w, FALSE, MaxQueueSamples, -1, Counting, MaxSamples)

NextMerge ==
    \/ DispatchNotify
    \/ DispatchMultiStep
    \/ MultiStepLoop
    \/ StepReturn
    \/ ReceiveAsyncStart
    \/ ReceiveAsyncYielded
    \/ ReceiveAsyncAfterCallback
    \/ ReceiveAsyncDrain
    \/ \E q \in ExecPorts : CallbackTransmitMerge(q)
    \/ CallbackStep
    \/ CallbackReturn
    \/ \E p \in ItcPorts : ItcTransmit(p)
    \/ \E p \in ItcPorts : ItcCheckStopped(p)
    \/ \E p \in ItcPorts : ItcAcquireTimeout(p)
    \/ \E p \in ItcPorts : ItcEmitExecutor(p)
    \/ \E p \in ItcPorts : SetStopped(p, FALSE)

SpecMerge == InitMerge /\ [][NextMerge]_vars

----------------------------------------------------------------------------
(* The executor specification with a fair receiving thread *)

\* the receiving thread: the event loop and everything it calls
Receiver ==
    \/ DispatchNotify
    \/ DispatchMultiStep
    \/ MultiStepLoop
    \/ StepReturn
    \/ ReceiveAsyncStart
    \/ ReceiveAsyncYielded
    \/ ReceiveAsyncAfterCallback
    \/ ReceiveAsyncDrain
    \/ CallbackStep
    \/ CallbackReturn

InitLive ==
    \E main \in BOOLEAN, w \in 1..MaxWidth :
        InitState(main, ItcPorts \cup ExecPorts, w, FALSE, 1, -1, Counting,
                  MaxLiveSamples)

\* the event loop of the receiving thread keeps running and callbacks return
SpecLive == InitLive /\ [][Next]_vars /\ WF_vars(Receiver)

----------------------------------------------------------------------------
(* The executor specification with filters whose onPortDataChanged fails *)

InitThrow ==
    \E main \in BOOLEAN, w \in 1..MaxWidth :
        InitState(main, ItcPorts \cup ExecPorts, w, FALSE, 1, -1, Counting,
                  MaxThrowSamples)

NextThrow ==
    \/ Next
    \/ CallbackThrow

SpecThrow == InitThrow /\ [][NextThrow]_vars

----------------------------------------------------------------------------
(* The executor specification with clear(): the executor is cleared while   *)
(* nothing runs on its thread; the sending threads run on.                   *)

ClearIdle ==
    /\ stack = << >>
    /\ Clear

NextClear ==
    \/ DispatchNotify
    \/ DispatchMultiStep
    \/ MultiStepLoop
    \/ StepReturn
    \/ ReceiveAsyncStart
    \/ ReceiveAsyncYielded
    \/ ReceiveAsyncAfterCallback
    \/ ReceiveAsyncDrain
    \/ \E q \in Ports : CallbackTransmitExec(q)
    \/ CallbackStep
    \/ CallbackReturn
    \/ \E p \in ItcPorts : ItcTransmit(p)
    \/ \E p \in ItcPorts : ItcCheckStopped(p)
    \/ \E p \in ItcPorts : ItcAcquireTimeout(p)
    \/ \E p \in ItcPorts : ItcRegisterCheck(p)
    \/ \E p \in ItcPorts : ItcRegisterPush(p)
    \/ \E p \in ItcPorts : SetStopped(p, FALSE)
    \/ ClearIdle

SpecClear == Init /\ [][NextClear]_vars

\* the same with an event loop that runs what is posted to it
SpecClearFair == InitLive /\ [][NextClear]_vars /\ WF_vars(Receiver)

----------------------------------------------------------------------------
(* The step specification: the executor specification with clear(), where   *)
(* clear() also runs while a callback is on the stack of the executor's     *)
(* thread, and every call of step() is recorded with the value it returns.  *)

\* Executor::step(fromFilter): res is true when an event was taken
StepCalled(from) == Call("step", NoPort, TRUE, << from >>, << >>, popped' # popped)

\* Executor::multiStep: one evaluation of the loop condition, with the call
\* it makes; the call of notifyInThread is recorded with the value of maxEvents
MultiStepLoopRecorded ==
    /\ Running("multiStep", "loop")
    /\ \E inTime \in BOOLEAN :
        /\ Top.n = MAX_EVENTS_PER_STEP => inTime
        /\ IF (~stopped) /\ Top.n > 0 /\ inTime
           THEN /\ DoStep(NoFilter, stack, Below)
                /\ lastCall' = StepCalled(NoFilter)
                /\ UNCHANGED << numNotifiesInQueue, eventQueue >>
           ELSE /\ numNotifiesInQueue' = NotifyCount(numNotifiesInQueue)
                /\ eventQueue' = eventQueue \o NotifyPosts(numNotifiesInQueue)
                /\ stack' = Below
                /\ lastCall' = Call("notifyInThread", NoPort, TRUE, << Top.n >>, << >>,
                                    "returned")
                /\ UNCHANGED << pendingReceives, blockedFilters, queue, history,
                                delivered, popped >>
    /\ UNCHANGED << queueSizeSamples, queueSizeSeconds, interthreadDynamicQueue,
                    semaphoreN, itcVars, stopped, stackDepth, mainPendingReceives,
                    wiringVars, filterState, errorLog, lifecycleVars, mutexVars, numCalled,
                    transmitted >>

\* executor->step(fromFilter) from inside the transmitting filter's callback
CallbackStepRecorded ==
    /\ Running("callback", "callStep")
    /\ LET resumed == Below \o << [Top EXCEPT !.pc = "run"] >> IN
       DoStep(FromFilter(FilterOf(Top.port)), resumed, resumed)
    /\ lastCall' = StepCalled(FromFilter(FilterOf(Top.port)))
    /\ UNCHANGED << queueSizeSamples, queueSizeSeconds, interthreadDynamicQueue,
                    semaphoreN, itcVars, stopped, numNotifiesInQueue, eventQueue,
                    stackDepth, mainPendingReceives, wiringVars, filterState, errorLog,
                    lifecycleVars, mutexVars, numCalled, transmitted >>

\* Executor::clear while a callback runs on the executor's thread
ClearRunning ==
    /\ stack # << >>
    /\ Top.op = "callback"
    /\ Clear

NextStep ==
    \/ DispatchNotify
    \/ DispatchMultiStep
    \/ MultiStepLoopRecorded
    \/ StepReturn
    \/ ReceiveAsyncStart
    \/ ReceiveAsyncYielded
    \/ ReceiveAsyncAfterCallback
    \/ ReceiveAsyncDrain
    \/ \E q \in Ports : CallbackTransmitExec(q)
    \/ CallbackStepRecorded
    \/ CallbackReturn
    \/ \E p \in ItcPorts : ItcTransmit(p)
    \/ \E p \in ItcPorts : ItcCheckStopped(p)
    \/ \E p \in ItcPorts : ItcAcquireTimeout(p)
    \/ \E p \in ItcPorts : ItcRegisterCheck(p)
    \/ \E p \in ItcPorts : ItcRegisterPush(p)
    \/ \E p \in ItcPorts : SetStopped(p, FALSE)
    \/ ClearIdle
    \/ ClearRunning

InitStep ==
    \E main \in BOOLEAN :
        InitState(main, ItcPorts \cup ExecPorts, 1, FALSE, 1, -1, Counting, MaxStepSamples)

SpecStep == InitStep /\ [][NextStep]_vars

----------------------------------------------------------------------------
(* The multiStep specification: about MAX_EVENTS_PER_STEP events for port   *)
(* a_ex were registered before the event loop of the executor's thread ran, *)
(* which posted one multiStep().  The callbacks transmit one sample.        *)

\* n events for input port p, registered by registerPendingRcvSync
Registered(p, n) == [i \in 1..n |-> ReceiveEvent(p, i, FALSE)]

InitMultiStep ==
    \E n \in (MAX_EVENTS_PER_STEP - 1)..(MAX_EVENTS_PER_STEP + MaxExtra) :
        /\ InitLoaded(FALSE, ExecPorts, 1, FALSE, 1, -1, Counting, 1,
                      Registered("a_ex", n), << Posted("multiStep", NoPort, 0) >>)
        /\ InitActive

NextMultiStep ==
    \/ DispatchMultiStep
    \/ MultiStepLoopRecorded
    \/ StepReturn
    \/ \E q \in Ports : CallbackTransmitExec(q)
    \/ CallbackStepRecorded
    \/ CallbackReturn

SpecMultiStep == InitMultiStep /\ [][NextMultiStep]_vars

----------------------------------------------------------------------------
(* The finalize specification: finalize() is called once on the thread of   *)
(* the executor, a worker thread, with up to MaxFinalizePending events       *)
(* pending.  Every callback may transmit one sample over its filter's        *)
(* same-thread edge, however many samples have been transmitted before.      *)
(* The event loop does not run before finalize() has returned.               *)

MAX_LOOPS_FINALIZE == 5

\* a scan without the bound on the calls of one input port
NoLoopBound(called) == TRUE

\* cond2 of Executor::finalize: the bound on the calls of one input port
LoopsLeft(called) == called < MAX_LOOPS_FINALIZE

\* a scan that does not look at the blocked filters
FirstUncounted(pending, blocked, called) ==
    IF \E i \in 1..Len(pending) : LoopsLeft(called[pending[i].port])
    THEN CHOOSE i \in 1..Len(pending) :
            /\ LoopsLeft(called[pending[i].port])
            /\ \A j \in 1..(i - 1) : ~LoopsLeft(called[pending[j].port])
    ELSE 0

\* Executor::finalize: index of the event the scan accepts, 0 if there is none
FirstFinalizable(pending, blocked, called) ==
    IF \E i \in 1..Len(pending) :
            FilterOf(pending[i].port) \notin blocked /\ LoopsLeft(called[pending[i].port])
    THEN CHOOSE i \in 1..Len(pending) :
            /\ FilterOf(pending[i].port) \notin blocked
            /\ LoopsLeft(called[pending[i].port])
            /\ \A j \in 1..(i - 1) :
                    \/ FilterOf(pending[j].port) \in blocked
                    \/ ~LoopsLeft(called[pending[j].port])
    ELSE 0

FinalizeFrame == Frame("finalize", NoPort, 0, "scan", NoFilter, 0, << >>, FALSE, FALSE)

\* Executor::finalize is called from the event loop of the executor's thread;
\* from here on popped holds the events taken since the call
FinalizeCall ==
    /\ stack = << >>
    /\ lastCall = NoCall
    /\ stack' = << FinalizeFrame >>
    /\ numCalled' = [p \in Ports |-> 0]
    /\ popped' = << >>
    /\ lastCall' = Call("finalize", NoPort, TRUE, << >>, << >>, "running")
    /\ UNCHANGED << portVars, itcVars, execVars, eventQueue, stackDepth,
                    mainPendingReceives, wiringVars, filterState, errorLog,
                    lifecycleVars, mutexVars, transmitted, delivered >>

\* Executor::finalize: one pass of while(changed)
FinalizeLoop ==
    /\ Running("finalize", "scan")
    /\ LET i == FirstFinalizable(pendingReceives, blockedFilters, numCalled) IN
       IF i = 0
       THEN /\ stack' = Below
            /\ lastCall' = Call("finalize", NoPort, TRUE, << >>, << >>, "returned")
            /\ UNCHANGED << pendingReceives, numCalled, popped, queue, history,
                            delivered >>
       ELSE LET ev == pendingReceives[i] IN
            /\ pendingReceives' = RemoveAt(pendingReceives, i)
            /\ popped' = Append(popped, ev)
            /\ numCalled' = [numCalled EXCEPT ![ev.port] = @ + 1]
            /\ IF ~ev.sem
               THEN /\ EnterCallback(ev.port, ev.sample)
                    /\ stack' = Append(stack, CallbackFrame(ev.port, ev.sample))
               ELSE /\ stack' = Append(stack,
                                ReceiveAsyncFrame(ev.port, ev.sample, TRUE, FALSE))
                    /\ UNCHANGED << queue, history, delivered >>
            /\ UNCHANGED lastCall
    /\ UNCHANGED << queueSizeSamples, queueSizeSeconds, interthreadDynamicQueue,
                    semaphoreN, itcVars, blockedFilters, stopped, numNotifiesInQueue,
                    eventQueue, stackDepth, mainPendingReceives, wiringVars,
                    filterState, errorLog, lifecycleVars, mutexVars, transmitted >>

\* the timestamp of the n-th sample a callback transmits during finalize()
FinalizeStamp(n) == MaxFinalizePending + n

\* onPortDataChanged transmits once over a same-thread edge that goes
\* through the executor: registerPendingRcvSync, then step(fromFilter)
CallbackReemit(q) ==
    /\ Running("callback", "run")
    /\ \E i \in 1..Len(stack) : stack[i].op = "finalize"
    /\ Top.n = 0
    /\ q \in ExecPorts \cap connected
    /\ SourceOf(q) = FilterOf(Top.port)
    /\ transmitted' = [transmitted EXCEPT ![q] = @ + 1]
    /\ pendingReceives' = RegisterPendingRcvSync(pendingReceives, q,
                                               FinalizeStamp(transmitted[q] + 1))
    /\ numNotifiesInQueue' = IF ~stopped THEN NotifyCount(numNotifiesInQueue)
                             ELSE numNotifiesInQueue
    /\ eventQueue' = IF ~stopped THEN eventQueue \o NotifyPosts(numNotifiesInQueue)
                     ELSE eventQueue
    /\ stack' = Below \o << [Top EXCEPT !.pc = "callStep", !.n = @ + 1] >>
    /\ UNCHANGED << portVars, itcVars, blockedFilters, stopped, stackDepth,
                    mainPendingReceives, wiringVars, apiVars, delivered >>

\* the events pending when finalize() is called: events of same-thread edges
\* and events of inter-thread connections, numbered in their order
PendingContents ==
    UNION { { [i \in 1..n |-> ReceiveEvent(ports[i], i, ports[i] \in ItcPorts)] :
                ports \in [1..n -> ItcPorts \cup ExecPorts] } :
            n \in 0..MaxFinalizePending }

InitFinalize ==
    \E pending \in PendingContents :
        /\ InitLoaded(FALSE, ItcPorts \cup ExecPorts, 1, FALSE, 1, -1, Counting, 0, pending,
                      IF pending = << >> THEN << >>
                      ELSE << Posted("multiStep", NoPort, 0) >>)
        /\ InitActive

NextFinalize ==
    \/ FinalizeCall
    \/ FinalizeLoop
    \/ ReceiveAsyncStart
    \/ ReceiveAsyncAfterCallback
    \/ \E q \in Ports : CallbackReemit(q)
    \/ CallbackStep
    \/ StepReturn
    \/ CallbackReturn

\* the thread of the executor goes on and every callback returns
SpecFinalize == InitFinalize /\ [][NextFinalize]_vars /\ WF_vars(NextFinalize)

----------------------------------------------------------------------------
(* The nested finalize specification: the event loop runs multiStep(), and  *)
(* finalize() is called once, from the event loop or from a callback that   *)
(* step() has reached, where filters are blocked.                           *)

\* Executor::finalize is called from onPortDataChanged
FinalizeInCallback ==
    /\ Running("callback", "run")
    /\ Top.n = 0
    /\ lastCall = NoCall
    /\ stack' = Append(stack, FinalizeFrame)
    /\ numCalled' = [p \in Ports |-> 0]
    /\ popped' = << >>
    /\ lastCall' = Call("finalize", NoPort, TRUE, << >>, << >>, "running")
    /\ UNCHANGED << portVars, itcVars, execVars, eventQueue, stackDepth,
                    mainPendingReceives, wiringVars, filterState, errorLog,
                    lifecycleVars, mutexVars, transmitted, delivered >>

InitNested ==
    \E pending \in PendingContents :
        /\ pending # << >>
        /\ InitLoaded(FALSE, ItcPorts \cup ExecPorts, 1, FALSE, 1, -1, Counting,
                      MaxNestedSamples, pending, << Posted("multiStep", NoPort, 0) >>)
        /\ InitActive

NextNested ==
    \/ DispatchMultiStep
    \/ MultiStepLoop
    \/ FinalizeCall
    \/ FinalizeInCallback
    \/ FinalizeLoop
    \/ ReceiveAsyncStart
    \/ ReceiveAsyncAfterCallback
    \/ \E q \in Ports : CallbackTransmitExec(q)
    \/ \E q \in Ports : CallbackReemit(q)
    \/ CallbackStep
    \/ StepReturn
    \/ CallbackReturn

SpecNested == InitNested /\ [][NextNested]_vars

----------------------------------------------------------------------------
(* The mutex specification: the operations of the executor statement by     *)
(* statement, with pendingReceivesMutex.  A sending thread per ITC, the      *)
(* executor's thread (a worker thread) and a thread that calls clear() once  *)
(* take their steps in any order.  A frame of step() or finalize() counts in *)
(* n its calls of lock() minus its calls of unlock().                        *)

MaxMutexSamples == 2

\* QMutex::lock by thread t: it returns when no thread holds the mutex
Lock(t) == pendingReceivesMutex = Free /\ pendingReceivesMutex' = t

\* QMutex::unlock
Unlock == pendingReceivesMutex' = Free

\* ~StepFunctionHelper unlocks whatever step() returns
HelperUnlocksAlways(res) == TRUE

\* ~StepFunctionHelper: if( !res ) unlock()
HelperUnlocks(res) == ~res

\* Executor::multiStep: one evaluation of the loop condition and, in the
\* loop, the entry of step(): StepFunctionHelper(null) blocks no filter
MultiStepEnter ==
    /\ Running("multiStep", "loop")
    /\ \E inTime \in BOOLEAN :
        /\ Top.n = MAX_EVENTS_PER_STEP => inTime
        /\ IF (~stopped) /\ Top.n > 0 /\ inTime
           THEN /\ stack' = Append(stack, [StepFrame(NoFilter) EXCEPT !.pc = "lock"])
                /\ UNCHANGED << numNotifiesInQueue, eventQueue >>
           ELSE /\ numNotifiesInQueue' = NotifyCount(numNotifiesInQueue)
                /\ eventQueue' = eventQueue \o NotifyPosts(numNotifiesInQueue)
                /\ stack' = Below
    /\ UNCHANGED << portVars, itcVars, pendingReceives, blockedFilters, stopped,
                    stackDepth, mainPendingReceives, wiringVars, apiVars, transmitted,
                    delivered >>

\* executor->step(fromFilter) from the transmitting filter's callback, up to
\* the constructor of StepFunctionHelper
CallbackStepEnter ==
    /\ Running("callback", "callStep")
    /\ LET resumed == Below \o << [Top EXCEPT !.pc = "run"] >>
           from == FromFilter(FilterOf(Top.port))
       IN  IF stopped
           THEN /\ stack' = resumed
                /\ UNCHANGED blockedFilters
           ELSE /\ blockedFilters' = BlockedDuring(blockedFilters, from)
                /\ stack' = Append(resumed, [StepFrame(from) EXCEPT !.pc = "lock"])
    /\ UNCHANGED << portVars, itcVars, pendingReceives, stopped, numNotifiesInQueue,
                    eventQueue, stackDepth, mainPendingReceives, wiringVars, apiVars,
                    transmitted, delivered >>

\* Executor::step: d->pendingReceivesMutex.lock()
StepLock ==
    /\ Running("step", "lock")
    /\ Lock(ExecutorThread)
    /\ stack' = Below \o << [Top EXCEPT !.pc = "scan", !.n = @ + 1] >>
    /\ UNCHANGED << portVars, itcVars, execVars, eventQueue, stackDepth,
                    mainPendingReceives, wiringVars, filterState, errorLog, lastCall,
                    popped, lifecycleVars, numCalled, clearPc, transmitted,
                    delivered >>

\* Executor::step: the scan; the event it accepts is erased, the mutex is
\* unlocked and the event is dispatched
StepScan ==
    /\ Running("step", "scan")
    /\ LET i == FirstDeliverable(pendingReceives, blockedFilters) IN
       IF i = 0
       THEN /\ stack' = Below \o << [Top EXCEPT !.pc = "notFound"] >>
            /\ UNCHANGED << pendingReceives, popped, pendingReceivesMutex, queue,
                            history, delivered >>
       ELSE LET ev == pendingReceives[i]
                me == [Top EXCEPT !.pc = "dispatch", !.n = @ - 1]
            IN  /\ pendingReceives' = RemoveAt(pendingReceives, i)
                /\ popped' = Append(popped, ev)
                /\ Unlock
                /\ IF ~ev.sem
                   THEN /\ EnterCallback(ev.port, ev.sample)
                        /\ stack' = Below \o << me, CallbackFrame(ev.port, ev.sample) >>
                   ELSE /\ stack' = Below \o
                                << me, ReceiveAsyncFrame(ev.port, ev.sample, TRUE, FALSE) >>
                        /\ UNCHANGED << queue, history, delivered >>
    /\ UNCHANGED << queueSizeSamples, queueSizeSeconds, interthreadDynamicQueue,
                    semaphoreN, itcVars, blockedFilters, stopped, numNotifiesInQueue,
                    eventQueue, stackDepth, mainPendingReceives, wiringVars,
                    filterState, errorLog, lastCall, lifecycleVars, numCalled, clearPc,
                    transmitted >>

\* ~StepFunctionHelper, first statement: the unlock() of a step() that
\* dispatched nothing
StepDestructor ==
    /\ stack # << >>
    /\ Top.op = "step"
    /\ Top.pc \in {"dispatch", "notFound"}
    /\ LET res == Top.pc = "dispatch" IN
       IF HelperUnlocks(res)
       THEN /\ Unlock
            /\ stack' = Below \o << [Top EXCEPT !.pc = IF res THEN "found" ELSE "none",
                                                !.n = @ - 1] >>
       ELSE /\ stack' = Below \o << [Top EXCEPT !.pc = IF res THEN "found" ELSE "none"] >>
            /\ UNCHANGED pendingReceivesMutex
    /\ UNCHANGED << portVars, itcVars, execVars, eventQueue, stackDepth,
                    mainPendingReceives, wiringVars, filterState, errorLog, lastCall,
                    popped, lifecycleVars, numCalled, clearPc, transmitted,
                    delivered >>

\* ~StepFunctionHelper, second statement: blockedFilters.erase(fromFilter);
\* step() returns res to multiStep (maxEvents--, or return) or to the callback
StepLeave ==
    /\ stack # << >>
    /\ Top.op = "step"
    /\ Top.pc \in {"found", "none"}
    /\ blockedFilters' = BlockedAfter(blockedFilters, Top.from)
    /\ stack' = IF Len(stack) > 1 /\ stack[Len(stack) - 1].op = "multiStep"
                THEN IF Top.pc = "found"
                     THEN [Below EXCEPT ![Len(stack) - 1].n = @ - 1]
                     ELSE Front(Below)
                ELSE Below
    /\ UNCHANGED << portVars, itcVars, pendingReceives, stopped, numNotifiesInQueue,
                    eventQueue, stackDepth, mainPendingReceives, wiringVars, apiVars,
                    transmitted, delivered >>

\* transmit over a same-thread edge from the callback:
\* Executor::registerPendingRcvSync up to the test of d->stopped
CallbackRegisterSync(q) ==
    /\ Running("callback", "run")
    /\ q \in ExecPorts \cap connected
    /\ SourceOf(q) = FilterOf(Top.port)
    /\ Budget
    /\ transmitted' = [transmitted EXCEPT ![q] = @ + 1]
    /\ stack' = IF stopped
                THEN Below \o << [Top EXCEPT !.pc = "callStep", !.n = @ + 1] >>
                ELSE Below \o << [Top EXCEPT
                        !.pc = "registerLock", !.n = @ + 1,
                        !.pend = << ReceiveEvent(q, stamps[transmitted[q] + 1], FALSE) >>] >>
    /\ UNCHANGED << portVars, itcVars, execVars, eventQueue, stackDepth,
                    mainPendingReceives, wiringVars, apiVars, delivered >>

\* registerPendingRcvSync: QMutexLocker locker(&d->pendingReceivesMutex)
RegisterSyncLock ==
    /\ Running("callback", "registerLock")
    /\ Lock(ExecutorThread)
    /\ stack' = Below \o << [Top EXCEPT !.pc = "registerPush"] >>
    /\ UNCHANGED << portVars, itcVars, execVars, eventQueue, stackDepth,
                    mainPendingReceives, wiringVars, filterState, errorLog, lastCall,
                    popped, lifecycleVars, numCalled, clearPc, transmitted,
                    delivered >>

\* registerPendingRcvSync: push_back, ~QMutexLocker, notifyInThread()
RegisterSyncPush ==
    /\ Running("callback", "registerPush")
    /\ pendingReceives' = Append(pendingReceives, Top.pend[1])
    /\ Unlock
    /\ numNotifiesInQueue' = NotifyCount(numNotifiesInQueue)
    /\ eventQueue' = eventQueue \o NotifyPosts(numNotifiesInQueue)
    /\ stack' = Below \o << [Top EXCEPT !.pc = "callStep", !.pend = << >>] >>
    /\ UNCHANGED << portVars, itcVars, blockedFilters, stopped, stackDepth,
                    mainPendingReceives, wiringVars, filterState, errorLog, lastCall,
                    popped, lifecycleVars, numCalled, clearPc, transmitted,
                    delivered >>

\* registerPendingRcvAsync on the sending thread: QMutexLocker
RegisterAsyncLock(p) ==
    /\ senderPc[p] = "push"
    /\ Lock(p)
    /\ senderPc' = [senderPc EXCEPT ![p] = "locked"]
    /\ UNCHANGED << portVars, semaphore, itcStopped, width, emitted, execVars,
                    threadVars, wiringVars, filterState, errorLog, lastCall, popped,
                    lifecycleVars, numCalled, clearPc, transmitted, delivered >>

\* registerPendingRcvAsync: push_back, ~QMutexLocker, emit notify()
RegisterAsyncPush(p) ==
    /\ senderPc[p] = "locked"
    /\ pendingReceives' = Append(pendingReceives,
                                 ReceiveEvent(p, stamps[transmitted[p]], TRUE))
    /\ Unlock
    /\ eventQueue' = Append(eventQueue, Posted("notify", NoPort, 0))
    /\ senderPc' = [senderPc EXCEPT ![p] = "idle"]
    /\ UNCHANGED << portVars, semaphore, itcStopped, width, emitted, blockedFilters,
                    stopped, numNotifiesInQueue, stack, stackDepth,
                    mainPendingReceives, wiringVars, filterState, errorLog, lastCall,
                    popped, lifecycleVars, numCalled, clearPc, transmitted,
                    delivered >>

\* Executor::clear on its caller's thread: d->stopped = true
ClearStop ==
    /\ clearPc = "idle"
    /\ stopped' = TRUE
    /\ clearPc' = "pendingReceives"
    /\ UNCHANGED << portVars, itcVars, pendingReceives, blockedFilters,
                    numNotifiesInQueue, threadVars, wiringVars, filterState, errorLog,
                    lastCall, popped, lifecycleVars, numCalled, pendingReceivesMutex,
                    transmitted, delivered >>

\* Executor::clear: d->pendingReceives.clear()
ClearPending ==
    /\ clearPc = "pendingReceives"
    /\ pendingReceives' = << >>
    /\ clearPc' = "blockedFilters"
    /\ UNCHANGED << portVars, itcVars, blockedFilters, stopped, numNotifiesInQueue,
                    threadVars, wiringVars, filterState, errorLog, lastCall, popped,
                    lifecycleVars, numCalled, pendingReceivesMutex, transmitted,
                    delivered >>

\* Executor::clear: d->blockedFilters.clear()
ClearBlocked ==
    /\ clearPc = "blockedFilters"
    /\ blockedFilters' = {}
    /\ clearPc' = "returned"
    /\ UNCHANGED << portVars, itcVars, pendingReceives, stopped, numNotifiesInQueue,
                    threadVars, wiringVars, filterState, errorLog, lastCall, popped,
                    lifecycleVars, numCalled, pendingReceivesMutex, transmitted,
                    delivered >>

\* Executor::finalize is called on the idle thread of the executor
FinalizeEnter ==
    /\ stack = << >>
    /\ lastCall = NoCall
    /\ stack' = << [FinalizeFrame EXCEPT !.pc = "lock"] >>
    /\ numCalled' = [p \in Ports |-> 0]
    /\ lastCall' = Call("finalize", NoPort, TRUE, << >>, << >>, "running")
    /\ UNCHANGED << portVars, itcVars, execVars, eventQueue, stackDepth,
                    mainPendingReceives, wiringVars, filterState, errorLog, popped,
                    lifecycleVars, mutexVars, transmitted, delivered >>

\* Executor::finalize: the lock() at the head of the while loop and the
\* lock() that follows the dispatch
FinalizeLock ==
    /\ stack # << >>
    /\ Top.op = "finalize"
    /\ Top.pc \in {"lock", "relock"}
    /\ Lock(ExecutorThread)
    /\ stack' = Below \o << [Top EXCEPT
                    !.pc = IF Top.pc = "lock" THEN "scan" ELSE "changed", !.n = @ + 1] >>
    /\ UNCHANGED << portVars, itcVars, execVars, eventQueue, stackDepth,
                    mainPendingReceives, wiringVars, filterState, errorLog, lastCall,
                    popped, lifecycleVars, numCalled, clearPc, transmitted,
                    delivered >>

\* Executor::finalize: the scan; the event it accepts is erased, the mutex is
\* unlocked, the event is counted and dispatched
FinalizeScan ==
    /\ Running("finalize", "scan")
    /\ LET i == FirstFinalizable(pendingReceives, blockedFilters, numCalled) IN
       IF i = 0
       THEN /\ stack' = Below \o << [Top EXCEPT !.pc = "unchanged"] >>
            /\ UNCHANGED << pendingReceives, popped, numCalled, pendingReceivesMutex,
                            queue, history, delivered >>
       ELSE LET ev == pendingReceives[i]
                me == [Top EXCEPT !.pc = "relock", !.n = @ - 1]
            IN  /\ pendingReceives' = RemoveAt(pendingReceives, i)
                /\ popped' = Append(popped, ev)
                /\ Unlock
                /\ numCalled' = [numCalled EXCEPT ![ev.port] = @ + 1]
                /\ IF ~ev.sem
                   THEN /\ EnterCallback(ev.port, ev.sample)
                        /\ stack' = Below \o << me, CallbackFrame(ev.port, ev.sample) >>
                   ELSE /\ stack' = Below \o
                                << me, ReceiveAsyncFrame(ev.port, ev.sample, TRUE, FALSE) >>
                        /\ UNCHANGED << queue, history, delivered >>
    /\ UNCHANGED << queueSizeSamples, queueSizeSeconds, interthreadDynamicQueue,
                    semaphoreN, itcVars, blockedFilters, stopped, numNotifiesInQueue,
                    eventQueue, stackDepth, mainPendingReceives, wiringVars,
                    filterState, errorLog, lastCall, lifecycleVars, clearPc,
                    transmitted >>

\* Executor::finalize: the unlock() at the end of the while loop; the loop
\* goes on if an event was dispatched
FinalizeUnlock ==
    /\ stack # << >>
    /\ Top.op = "finalize"
    /\ Top.pc \in {"changed", "unchanged"}
    /\ Unlock
    /\ stack' = Below \o << [Top EXCEPT
                    !.pc = IF Top.pc = "changed" THEN "lock" ELSE "return", !.n = @ - 1] >>
    /\ UNCHANGED << portVars, itcVars, execVars, eventQueue, stackDepth,
                    mainPendingReceives, wiringVars, filterState, errorLog, lastCall,
                    popped, lifecycleVars, numCalled, clearPc, transmitted,
                    delivered >>

\* Executor::finalize returns
FinalizeReturn ==
    /\ Running("finalize", "return")
    /\ stack' = Below
    /\ lastCall' = Call("finalize", NoPort, TRUE, << >>, << >>, "returned")
    /\ UNCHANGED << portVars, itcVars, execVars, eventQueue, stackDepth,
                    mainPendingReceives, wiringVars, filterState, errorLog, popped,
                    lifecycleVars, numCalled, mutexVars, transmitted, delivered >>

InitMutex ==
    InitState(FALSE, ItcPorts \cup ExecPorts, 1, FALSE, 1, -1, Counting, MaxMutexSamples)

NextMutex ==
    \/ DispatchNotify
    \/ DispatchMultiStep
    \/ MultiStepEnter
    \/ CallbackStepEnter
    \/ StepLock
    \/ StepScan
    \/ StepDestructor
    \/ StepLeave
    \/ ReceiveAsyncStart
    \/ ReceiveAsyncAfterCallback
    \/ \E q \in Ports : CallbackRegisterSync(q)
    \/ RegisterSyncLock
    \/ RegisterSyncPush
    \/ CallbackReturn
    \/ \E p \in ItcPorts : SetStopped(p, FALSE)
    \/ \E p \in ItcPorts : ItcTransmit(p)
    \/ \E p \in ItcPorts : ItcCheckStopped(p)
    \/ \E p \in ItcPorts : ItcRegisterCheck(p)
    \/ \E p \in ItcPorts : RegisterAsyncLock(p)
    \/ \E p \in ItcPorts : RegisterAsyncPush(p)
    \/ ClearStop
    \/ ClearPending
    \/ ClearBlocked
    \/ FinalizeEnter
    \/ FinalizeLock
    \/ FinalizeScan
    \/ FinalizeUnlock
    \/ FinalizeReturn

SpecMutex == InitMutex /\ [][NextMutex]_vars

----------------------------------------------------------------------------
(* The state specification: the ports of the inter-thread specification     *)
(* with the static queue, where the filters are stopped, closed, opened and  *)
(* started again between the events of the receiving thread, and where a     *)
(* same-thread edge without executor hands its samples to receiveSync.       *)

MaxStateSamples == 3

\* the states a filter rests in between the operations that stop, close,
\* open and start it
StateMoves ==
    { << "ACTIVE", "OPENED" >>, << "OPENED", "INITIALIZED" >>,
      << "INITIALIZED", "OPENED" >>, << "OPENED", "ACTIVE" >> }

\* a portDataChanged that calls the filter in every state
PortDataChangedAlways(st) == "callback"

\* a portDataChanged that discards the sample in every state but ACTIVE
PortDataChangedLenient(st) == IF st = "ACTIVE" THEN "callback" ELSE "discarded"

\* BaseFilterEnvironment::portDataChanged in state st: onPortDataChanged is
\* called, the sample is discarded with a log record at Info, or a
\* std::runtime_error is thrown
PortDataChanged(st) ==
    IF st = "ACTIVE" THEN "callback"
    ELSE IF st = "OPENED" THEN "discarded" ELSE "throws"

\* the orchestrator has stopped, closed, opened or started filter f
Operate(f, st) ==
    /\ << filterState[f], st >> \in StateMoves
    /\ SetFilterState(f, st)

\* receiveSync of a connected port from the event loop: addToQueue, then
\* transmit() -> portDataChanged; what portDataChanged throws is logged
ReceiveSyncState(p) ==
    /\ stack = << >>
    /\ p \in DirectPorts \cap connected
    /\ Budget
    /\ transmitted' = [transmitted EXCEPT ![p] = @ + 1]
    /\ LET s == stamps[transmitted[p] + 1]
           out == PortDataChanged(filterState[FilterOf(p)])
       IN  /\ queue' = [queue EXCEPT ![p] =
                            AddToQueue(queue[p], queueSizeSamples[p],
                                       queueSizeSeconds[p], s)]
           /\ history' = [history EXCEPT ![p] = Append(@, s)]
           /\ delivered' = IF out = "callback"
                           THEN [delivered EXCEPT ![p] = Append(@, s)]
                           ELSE delivered
           /\ stack' = IF out = "callback" THEN << CallbackFrame(p, s) >> ELSE stack
           /\ errorLog' = IF out = "throws"
                          THEN Append(errorLog, << "receiveSync", p, s >>)
                          ELSE errorLog
    /\ UNCHANGED << queueSizeSamples, queueSizeSeconds, interthreadDynamicQueue,
                    semaphoreN, itcVars, execVars, eventQueue, stackDepth,
                    mainPendingReceives, wiringVars, filterState, lastCall,
                    ghostVars >>

\* receiveAsync with the static queue, from addToQueue on: transmit() ->
\* portDataChanged; what portDataChanged throws leaves the try block before
\* semaphore->release(1) and is logged
ReceiveAsyncAddState(f, base) ==
    LET p == f.port
        out == PortDataChanged(filterState[FilterOf(p)])
    IN  /\ queue' = [queue EXCEPT ![p] =
                        AddToQueue(queue[p], queueSizeSamples[p], queueSizeSeconds[p],
                                   f.sample)]
        /\ history' = [history EXCEPT ![p] = Append(@, f.sample)]
        /\ delivered' = IF out = "callback"
                        THEN [delivered EXCEPT ![p] = Append(@, f.sample)]
                        ELSE delivered
        /\ stack' = IF out = "callback"
                    THEN base \o << [f EXCEPT !.pc = "inCallbackStatic"],
                                    CallbackFrame(p, f.sample) >>
                    ELSE IF out = "discarded"
                    THEN base \o << [f EXCEPT !.pc = "inCallbackStatic"] >>
                    ELSE base \o << [f EXCEPT !.pc = "inCallbackStatic",
                                              !.sem = FALSE] >>
        /\ errorLog' = IF out = "throws"
                       THEN Append(errorLog, << "receiveAsync", p, f.sample >>)
                       ELSE errorLog

\* receiveAsync up to the yield, or up to the callback if it does not yield
ReceiveAsyncStartState ==
    /\ Running("receiveAsync", "start")
    /\ IF (~Top.isPending) /\ isMainThread
       THEN IF stackDepth > 0
            THEN /\ mainPendingReceives' =
                        Append(mainPendingReceives,
                               ReceiveEvent(Top.port, Top.sample, Top.sem))
                 /\ stack' = Below
                 /\ UNCHANGED << stackDepth, queue, history, delivered, errorLog >>
            ELSE /\ stackDepth' = stackDepth + 1
                 /\ stack' = Below \o << [Top EXCEPT !.pc = "yield"], ProcessEventsFrame >>
                 /\ UNCHANGED << mainPendingReceives, queue, history, delivered,
                                 errorLog >>
       ELSE /\ ReceiveAsyncAddState(Top, Below)
            /\ UNCHANGED << stackDepth, mainPendingReceives >>
    /\ UNCHANGED << queueSizeSamples, queueSizeSeconds, interthreadDynamicQueue,
                    semaphoreN, itcVars, execVars, eventQueue, wiringVars, filterState,
                    lastCall, ghostVars, transmitted >>

\* processEvents() has returned to the receiveAsync that called it
ReceiveAsyncYieldedState ==
    /\ Running("processEvents", "loop")
    /\ eventQueue = << >>
    /\ stackDepth' = stackDepth - 1
    /\ ReceiveAsyncAddState(stack[Len(stack) - 1], SubSeq(stack, 1, Len(stack) - 2))
    /\ UNCHANGED << queueSizeSamples, queueSizeSeconds, interthreadDynamicQueue,
                    semaphoreN, itcVars, execVars, eventQueue, mainPendingReceives,
                    wiringVars, filterState, lastCall, ghostVars, transmitted >>

InitStateSpec ==
    \E main \in BOOLEAN :
        InitState(main, ItcPorts \cup {"a_dir"}, 1, FALSE, 1, -1, Counting,
                  MaxStateSamples)

NextState ==
    \/ DispatchReceiveAsync
    \/ ReceiveAsyncStartState
    \/ ReceiveAsyncYieldedState
    \/ ReceiveAsyncAfterCallback
    \/ ReceiveAsyncDrain
    \/ \E p \in Ports : ReceiveSyncState(p)
    \/ CallbackReturn
    \/ CallbackThrow
    \/ \E f \in Filters, st \in {"ACTIVE", "OPENED", "INITIALIZED"} : Operate(f, st)
    \/ \E p \in ItcPorts : ItcTransmit(p)
    \/ \E p \in ItcPorts : ItcCheckStopped(p)
    \/ \E p \in ItcPorts : ItcEmitQueued(p)
    \/ \E p \in ItcPorts : SetStopped(p, FALSE)

SpecState == InitStateSpec /\ [][NextState]_vars

----------------------------------------------------------------------------
(* The re-entry specification: the executor specification on the main       *)
(* thread with ITCs of width 2 and the same-thread edge from A to B, with    *)
(* enough samples for a callback to be entered from the drain of             *)
(* receiveAsync while its filter is blocked.                                  *)

MaxReentrySamples == 5

InitReentry ==
    InitState(TRUE, ItcPorts \cup {"b_ex"}, 2, FALSE, 1, -1, Counting,
              MaxReentrySamples)

SpecReentry == InitReentry /\ [][Next]_vars

----------------------------------------------------------------------------
(* Properties of the executor specification *)

IsPrefix(a, b) == Len(a) <= Len(b) /\ \A i \in 1..Len(a) : a[i] = b[i]

\* the samples the source side has handed to the edge of port p: what the
\* ITC emitted, or what the source filter transmitted on a same-thread edge
SourceSeq(p) ==
    IF p \in ItcPorts THEN emitted[p] ELSE [n \in 1..transmitted[p] |-> stamps[n]]

\* C1: on one executor thread no onPortDataChanged of a filter F is entered
\* while another onPortDataChanged of F has not yet returned
C1_NoOverlappingCallbacks ==
    \A i, j \in 1..Len(stack) :
        (i < j /\ stack[i].op = "callback" /\ stack[j].op = "callback")
            => FilterOf(stack[i].port) # FilterOf(stack[j].port)

\* C2: on every edge the timestamps for which the destination's
\* onPortDataChanged was entered are, in this order, the first ones the
\* source handed to the edge: no reordering, no duplication, nothing skipped
C2_EdgeOrder ==
    \A p \in connected : IsPrefix(delivered[p], SourceSeq(p))

\* a sample was handed to an edge and onPortDataChanged was not entered for it
Undelivered == \E p \in connected : Len(delivered[p]) < Len(SourceSeq(p))

\* a multiStep is scheduled: posted, or about to be posted by a queued notify
WakeupScheduled ==
    \/ numNotifiesInQueue > 0
    \/ \E i \in 1..Len(eventQueue) : eventQueue[i].ev \in {"notify", "multiStep"}

\* C10: whenever pending holds a deliverable event and nothing runs on the
\* executor's thread a multiStep is scheduled, and every registered event is
\* eventually dispatched to its filter
C10_NoLostWakeup ==
    /\ []((stack = << >> /\ FirstDeliverable(pendingReceives, blockedFilters) # 0)
            => WakeupScheduled)
    /\ (Undelivered ~> ~Undelivered)

\* a multiStep gave up at its deadline with events left over and re-armed
\* itself, after a first event was dispatched
C10_Witness ==
    /\ stack = << >>
    /\ pendingReceives # << >>
    /\ numNotifiesInQueue > 0
    /\ \E p \in connected : delivered[p] # << >>

\* nothing runs and nothing is left to run, on either thread
Quiescent ==
    /\ stack = << >>
    /\ eventQueue = << >>
    /\ pendingReceives = << >>
    /\ mainPendingReceives = << >>
    /\ \A p \in ItcPorts : senderPc[p] = "idle"

\* C11: a failure of onPortDataChanged is logged as an error by
\* portDataChanged and ends there: only the callback is left, its caller
\* goes on as after a normal return, the sender and the executor's pending
\* events and blocked filters are untouched and the sample stays in the
\* queue; once everything has run, every ITC has all its permits back and
\* every sample handed to an edge has triggered a callback, the ones after
\* a failed one included
C11_FailureSwallowed ==
    /\ [][errorLog' # errorLog =>
            /\ Running("callback", "run")
            /\ errorLog' = Append(errorLog, << "portDataChanged", Top.port, Top.sample >>)
            /\ stack' = Below
            /\ queue' = queue
            /\ senderPc' = senderPc
            /\ pendingReceives' = pendingReceives
            /\ blockedFilters' = blockedFilters]_vars
    /\ [](Quiescent =>
            /\ \A p \in ItcPorts : semaphore[p] = width[p]
            /\ \A p \in connected : Len(delivered[p]) = Len(SourceSeq(p)))

\* the callback of an ITC port failed on one sample and was entered for a
\* later sample of the port; everything has run and the permits are back
C11_Witness ==
    /\ Quiescent
    /\ \E p \in ItcPorts, i \in 1..Len(errorLog) :
            /\ Len(delivered[p]) > 1
            /\ errorLog[i] = << "portDataChanged", p, delivered[p][1] >>
            /\ semaphore[p] = width[p]

\* C12: once clear() has run the executor stays stopped with no pending
\* event and no blocked filter, whatever the registering threads were doing
\* when it ran, and nothing is dispatched any more
C12_ClearedStaysEmpty ==
    stopped =>
        /\ pendingReceives = << >>
        /\ blockedFilters = {}
        /\ \A i \in 1..Len(stack) : stack[i].op \notin {"step", "callback", "receiveAsync"}

----------------------------------------------------------------------------
(* Properties of the inter-thread specification *)

\* samples that passed the permit acquisition of receiveSample and for which
\* the destination's onPortDataChanged has not been entered
InFlight(p) == Len(emitted[p]) - Len(delivered[p])

\* C3 as stated: at most W samples are in flight on an ITC of width W,
\* with the static and with the dynamic inter-thread queue
C3_InFlightAnyQueue ==
    \A p \in ItcPorts : InFlight(p) <= width[p]

\* C3 amended: at most W samples are in flight on an ITC of width W whose
\* destination port uses the static inter-thread queue
C3_InFlightStaticQueue ==
    \A p \in ItcPorts : (~interthreadDynamicQueue[p]) => InFlight(p) <= width[p]

\* a static queue port with as many samples in flight as the ITC is wide,
\* more than one
C3_Witness ==
    \E p \in ItcPorts :
        (~interthreadDynamicQueue[p]) /\ width[p] > 1 /\ InFlight(p) = width[p]

\* C5 as stated: getData(0, -1) returns the sample that triggered the
\* callback wherever the callback calls it, also after it has transmitted
C5_GetDataAnywhere ==
    Running("callback", "run") => GetData(queue[Top.port], 0, -1) = Top.sample

\* C5 amended: getData(0, -1) returns the sample that triggered the callback
\* when the callback calls it before it has transmitted
C5_GetDataBeforeTransmit ==
    (Running("callback", "run") /\ Top.n = 0)
        => GetData(queue[Top.port], 0, -1) = Top.sample

\* the callback of a drained main-thread pending receive is running, on a
\* port that has received a sample before
C5_Witness ==
    /\ Running("callback", "run")
    /\ Top.n = 0
    /\ Len(stack) > 1
    /\ stack[Len(stack) - 1].isPending
    /\ Len(history[Top.port]) > 1

\* C7 as stated: the permits of an ITC stay between 0 and its width, with
\* the static and with the dynamic inter-thread queue
C7_PermitsAnyQueue ==
    \A p \in ItcPorts : semaphore[p] >= 0 /\ semaphore[p] <= width[p]

\* C7 amended: the permits of an ITC whose destination port uses the static
\* inter-thread queue stay between 0 and its width
C7_PermitsStaticQueue ==
    \A p \in ItcPorts :
        (~interthreadDynamicQueue[p]) => (semaphore[p] >= 0 /\ semaphore[p] <= width[p])

\* all permits of a static queue port are back after a callback, and the
\* other ITC has none left
C7_Witness ==
    \E p, r \in ItcPorts :
        /\ ~interthreadDynamicQueue[p]
        /\ delivered[p] # << >>
        /\ semaphore[p] = width[p]
        /\ semaphore[r] = 0

\* C9: while an ITC is stopped no sample is emitted through
\* transmitInterThread, whatever receiveSample was doing when it was stopped
C9_NoEmitWhileStopped ==
    [][\A p \in ItcPorts :
          (itcStopped[p] /\ itcStopped'[p]) => emitted'[p] = emitted[p]]_vars

\* C15, second half: a receiveSample call that is inside tryAcquire when or
\* after its ITC was stopped ends by dropping its sample
C15_StoppedCallDrops ==
    [][\A p \in ItcPorts :
          (itcStopped[p] /\ senderPc[p] = "acquire" /\ senderPc'[p] = "idle")
              => Len(emitted'[p]) = Len(emitted[p])]_vars

\* C15, first half: with a fair sending thread a receiveSample call on a
\* stopped ITC returns, unless the ITC is started again
C15_SenderReturns ==
    \A p \in ItcPorts :
        (itcStopped[p] /\ senderPc[p] # "idle")
            ~> (senderPc[p] = "idle" \/ ~itcStopped[p])

\* the callbacks of port p that have not returned
CallbacksRunning(p) ==
    Cardinality({ i \in 1..Len(stack) : stack[i].op = "callback" /\ stack[i].port = p })

\* C8: with the static queue receiveAsync pushes the sample, invokes
\* onPortDataChanged and releases the permit afterwards: the permit of a
\* sample is not available before the callback for it has returned
C8_ReleaseAfterCallback ==
    \A p \in ItcPorts :
        (~interthreadDynamicQueue[p])
            => semaphore[p] + InFlight(p) + CallbacksRunning(p) <= width[p]

\* the receiveAsync calls for port p that have pushed their sample and not
\* yet called transmit()
BeforeTransmit(p) ==
    Cardinality({ i \in 1..Len(stack) :
                    /\ stack[i].op = "receiveAsync"
                    /\ stack[i].port = p
                    /\ stack[i].pc \in {"tryAcquire", "transmit"} })

\* C13: with the dynamic queue, the step of receiveAsync that pushes the
\* sample takes delta = N - queue.size() after the push (N is 1 when the
\* semaphore is seen first); with delta <= 0 it releases 1 - delta permits
\* and adds -delta to N, with delta > 0 it releases nothing, takes one off
\* N and goes on to at most delta - 1 tryAcquire steps, each of which takes
\* a permit and one off N or, when none is left, ends the loop; no other
\* step changes N, and every pushed sample gets exactly one callback
C13_DynamicQueueCredit ==
    /\ [][\A p \in ItcPorts \cap connected :
            LET n == IF semaphoreN[p] = -1 THEN 1 ELSE semaphoreN[p]
                delta == n - Len(queue'[p])
                f == stack[Len(stack)]
                g == stack'[Len(stack')]
            IN  IF history'[p] # history[p]
                THEN /\ g.op = "receiveAsync" /\ g.port = p
                     /\ IF delta <= 0
                        THEN /\ semaphore'[p] = semaphore[p] + (1 - delta)
                             /\ semaphoreN'[p] = n + (-delta)
                             /\ g.pc = "transmit"
                        ELSE /\ semaphore'[p] = semaphore[p]
                             /\ semaphoreN'[p] = n - 1
                             /\ g.pc = "tryAcquire" /\ g.n = delta - 1
                ELSE IF Running("receiveAsync", "tryAcquire") /\ f.port = p /\ stack' # stack
                THEN IF f.n > 0 /\ semaphore[p] > 0
                     THEN /\ semaphore'[p] = semaphore[p] - 1
                          /\ semaphoreN'[p] = semaphoreN[p] - 1
                          /\ g.pc = "tryAcquire" /\ g.n = f.n - 1
                     ELSE /\ semaphore'[p] = semaphore[p]
                          /\ semaphoreN'[p] = semaphoreN[p]
                          /\ g.pc = "transmit"
                ELSE /\ semaphoreN'[p] = semaphoreN[p]
                     /\ semaphore'[p] <= semaphore[p]]_vars
    /\ [](\A p \in ItcPorts \cap connected :
            /\ Len(history[p]) = Len(delivered[p]) + BeforeTransmit(p)
            /\ IsPrefix(delivered[p], history[p]))

\* the queue shrank by two against the credit: receiveAsync gave up the
\* permit it held and one more it could acquire, and is about to call
\* transmit()
C13_Witness ==
    /\ Running("receiveAsync", "transmit")
    /\ Len(history[Top.port]) = MaxDynSamples
    /\ Len(queue[Top.port]) = 1
    /\ semaphoreN[Top.port] = MaxDynSamples - 3
    /\ semaphore[Top.port] > 0

\* C14: on an inter-thread edge with the dynamic queue the queue never
\* holds more than queueSizeSamples samples and the callbacks are entered
\* in the order of emission; every call of receiveSample returns, and in
\* the end a callback has been entered for every sample emitted
C14_BurstDelivered ==
    /\ [](\A p \in ItcPorts :
            /\ Len(queue[p]) <= BurstQueueSamples
            /\ IsPrefix(delivered[p], emitted[p]))
    /\ \A p \in ItcPorts : (senderPc[p] # "idle") ~> (senderPc[p] = "idle")
    /\ <>[](\A p \in ItcPorts : delivered[p] = emitted[p])

\* the whole burst was emitted and delivered, the queue is full
C14_Witness ==
    /\ Len(delivered["a_itc"]) = MaxBurst
    /\ delivered["a_itc"] = emitted["a_itc"]
    /\ Len(queue["a_itc"]) = BurstQueueSamples
    /\ stack = << >>

----------------------------------------------------------------------------
(* Properties of the queue specification *)

\* the n samples received last, newest first
NewestFirst(h, n) == [i \in 1..n |-> h[Len(h) - i + 1]]

\* the sample bound in force for the requested (samples, seconds)
EffectiveSamples ==
    IF requested[1] <= 0 /\ requested[2] <= 0 THEN 1 ELSE requested[1]

\* C4: with max_samples = K > 0 (1 when both requested bounds are not
\* positive) the queue holds at most K samples after any sequence of
\* receives, and what it holds are the samples received last, newest first
C4_QueueBound ==
    \A p \in connected :
        EffectiveSamples > 0
            => /\ Len(queue[p]) <= EffectiveSamples
               /\ Len(queue[p]) <= Len(history[p])
               /\ queue[p] = NewestFirst(history[p], Len(queue[p]))

\* a port constructed with (0, 0) has received three samples and holds the
\* last one
C4_Witness ==
    /\ requested = << 0, 0 >>
    /\ Len(history[QueuePort]) = 3
    /\ queue[QueuePort] = << history[QueuePort][3] >>
    /\ stack = << >>

\* C6: with a time bound of T seconds, after every insert the queue still
\* holds the sample just inserted at its head, and the head is at most
\* T * 1000000 microseconds newer than the tail
C6_TimeBound ==
    \A p \in connected :
        (requested[2] > 0 /\ history[p] # << >>)
            => /\ queue[p] # << >>
               /\ queue[p][1] = Last(history[p])
               /\ queue[p][1] - Last(queue[p]) <= requested[2] * TIMESTAMP_RES_PER_SECOND

\* a sample that is older than the head was inserted after a sample that is
\* too new for the time bound had evicted the samples before it
C6_Witness ==
    /\ requested[2] > 0
    /\ Len(history[QueuePort]) = 3
    /\ Len(queue[QueuePort]) = 2
    /\ queue[QueuePort][1] < queue[QueuePort][2]
    /\ history[QueuePort][2] - history[QueuePort][1]
            > requested[2] * TIMESTAMP_RES_PER_SECOND

----------------------------------------------------------------------------
(* Properties of the port and of the getData specification *)

\* the last call was getData(...) on the port's thread
GetDataCalled == lastCall.op = "getData" /\ lastCall.onThread

\* equality of two results of a call, a sample's timestamp or the name of
\* an exception
Same(a, b) == ToString(a) = ToString(b)

\* how much older than the head the i-th sample of q is, in microseconds
Age(q, i) == q[1] - q[i]

\* a step that is a call of getData leaves the queues as they are
GetDataKeepsQueue ==
    (lastCall' # lastCall /\ lastCall'.op = "getData") => queue' = queue

\* C16: transmit, getData, receiveSync and receiveAsync called on another
\* thread than the port's end with the wrong-thread error at the caller
C16_WrongThreadReported ==
    (lastCall.op \in {"transmit", "getData", "receiveSync", "receiveAsync"}
        /\ ~lastCall.onThread)
            => lastCall.result = "unexpected_thread"

\* C20: transmit on an output port whose filter is not ACTIVE ends with an
\* invalid-state error and the sample reaches no input port
C20_TransmitOnlyActive ==
    (lastCall.op = "transmit" /\ lastCall.onThread /\ lastCall.args[2] # "ACTIVE")
        => /\ lastCall.result = "invalid_state"
           /\ delivered[lastCall.port] = << >>

\* C17: getData with both arguments >= 0 or both < 0 ends with the
\* runtime_error of the argument test whatever the queue holds, also when
\* delaySamples is out of range, and leaves the queue as it is
C17_InvalidArguments ==
    /\ [](GetDataCalled =>
            LET delaySamples == lastCall.args[1]
                delaySeconds == lastCall.args[2]
            IN  ((delaySamples >= 0 /\ delaySeconds >= 0)
                    \/ (delaySamples < 0 /\ delaySeconds < 0))
                        => Same(lastCall.result, "runtime_error"))
    /\ [][GetDataKeepsQueue]_vars

\* both arguments >= 0 and delaySamples beyond a queue of two or more samples
C17_Witness ==
    /\ GetDataCalled
    /\ lastCall.args[2] >= 0
    /\ Len(lastCall.seen) >= 2
    /\ lastCall.args[1] >= Len(lastCall.seen)
    /\ Same(lastCall.result, "runtime_error")

\* C18: getData(k, -1) returns the sample received k samples before the
\* last one when 0 <= k < queue.size and ends with out_of_range when
\* k >= queue.size; getData(-1, t) ends with out_of_range when no queued
\* sample is at least t seconds older than the head; the queue is left as
\* it is
C18_GetDataBySamples ==
    /\ [](GetDataCalled =>
            LET k == lastCall.args[1]
                t == lastCall.args[2]
                q == lastCall.seen
                h == history[lastCall.port]
            IN  /\ (k >= 0 /\ t < 0 /\ k < Len(q)) => Same(lastCall.result, h[Len(h) - k])
                /\ (k >= 0 /\ t < 0 /\ k >= Len(q)) => Same(lastCall.result, "out_of_range")
                /\ (k < 0 /\ t >= 0
                        /\ \A i \in 1..Len(q) : Age(q, i) < t * TIMESTAMP_RES_PER_SECOND)
                            => Same(lastCall.result, "out_of_range"))
    /\ [][GetDataKeepsQueue]_vars

\* getData(k, -1) on a queue of exactly k samples, k the most the port has
\* received
C18_Witness ==
    /\ GetDataCalled
    /\ lastCall.args = << MaxInserts, -1 >>
    /\ Len(lastCall.seen) = MaxInserts
    /\ Same(lastCall.result, "out_of_range")

\* C19 as stated: getData(-1, t) returns the oldest queued sample that is
\* more than t seconds older than the head
C19_OldestExceeding ==
    GetDataCalled =>
        LET t == lastCall.args[2]
            q == lastCall.seen
            older == { i \in 1..Len(q) : Age(q, i) > t * TIMESTAMP_RES_PER_SECOND }
        IN  (lastCall.args[1] < 0 /\ t >= 0 /\ older # {})
                => Same(lastCall.result, q[CHOOSE i \in older : \A j \in older : j <= i])

\* C19 amended: getData(-1, t) returns the first sample from the head of the
\* queue that is at least t seconds older than the head (the most recently
\* received such sample), and ends with out_of_range when there is none
C19_NewestAtLeast ==
    GetDataCalled =>
        LET t == lastCall.args[2]
            q == lastCall.seen
            old == { i \in 1..Len(q) : Age(q, i) >= t * TIMESTAMP_RES_PER_SECOND }
        IN  (lastCall.args[1] < 0 /\ t >= 0)
                => IF old = {} THEN Same(lastCall.result, "out_of_range")
                   ELSE Same(lastCall.result, q[CHOOSE i \in old : \A j \in old : i <= j])

\* getData(-1, 1) on a queue whose second sample is exactly one second older
\* than the head and whose third sample is older still: the second is
\* returned
C19_Witness ==
    /\ GetDataCalled
    /\ lastCall.args = << -1, 1 >>
    /\ Len(lastCall.seen) = 3
    /\ Age(lastCall.seen, 2) = TIMESTAMP_RES_PER_SECOND
    /\ Age(lastCall.seen, 3) > TIMESTAMP_RES_PER_SECOND
    /\ Same(lastCall.result, lastCall.seen[2])

----------------------------------------------------------------------------
(* Properties of the direct connection *)

\* C21: over a direct connection the sample is pushed and onPortDataChanged
\* is entered inside transmit, and has returned before transmit returns (a
\* running callback of the port sits directly on the sender's callback that
\* called transmit); the port's queue and its callbacks see the sender's
\* samples in the order of its transmit calls
C21_DirectInline ==
    \A p \in DirectPorts \cap connected :
        /\ Len(delivered[p]) = transmitted[p]
        /\ delivered[p] = SourceSeq(p)
        /\ history[p] = delivered[p]
        /\ \A i \in 1..Len(stack) :
                (stack[i].op = "callback" /\ stack[i].port = p)
                    => /\ i > 1
                       /\ stack[i - 1].op = "callback"
                       /\ stack[i - 1].pc = "run"
                       /\ FilterOf(stack[i - 1].port) = SourceOf(p)

\* the sender has returned from its second transmit on a direct connection
\* and runs on, both callbacks of the subscriber have returned
C21_Witness ==
    \E p \in DirectPorts :
        /\ transmitted[p] >= 2
        /\ Running("callback", "run")
        /\ FilterOf(Top.port) = SourceOf(p)
        /\ Top.n >= 2
        /\ CallbacksRunning(p) = 0

----------------------------------------------------------------------------
(* Properties of the merge specification *)

\* the samples of the events popped for port p, in the order of the pops
RECURSIVE PoppedFor(_, _)
PoppedFor(evs, p) ==
    IF evs = << >> THEN << >>
    ELSE IF Head(evs).port = p THEN << Head(evs).sample >> \o PoppedFor(Tail(evs), p)
    ELSE PoppedFor(Tail(evs), p)

\* the sample came over the same-thread edge into its port
OverSameThreadEdge(s) == s > MaxSamples + MaxBurst

\* the position of sample s in the sequence h
IndexIn(h, s) == CHOOSE i \in 1..Len(h) : h[i] = s

\* C22: two samples that came into one input port over different edges are
\* pushed into its queue, and their callbacks are entered, in the order in
\* which step() popped their events
C22_PushInPopOrder ==
    \A p \in connected :
        LET pops == PoppedFor(popped, p) IN
        /\ \A i, j \in 1..Len(history[p]) :
                (i < j /\ OverSameThreadEdge(history[p][i]) # OverSameThreadEdge(history[p][j]))
                    => IndexIn(pops, history[p][i]) < IndexIn(pops, history[p][j])
        /\ \A i, j \in 1..Len(delivered[p]) :
                (i < j /\ OverSameThreadEdge(delivered[p][i]) # OverSameThreadEdge(delivered[p][j]))
                    => IndexIn(pops, delivered[p][i]) < IndexIn(pops, delivered[p][j])

\* the same on a worker thread only
C22_WorkerPushInPopOrder == (~isMainThread) => C22_PushInPopOrder

----------------------------------------------------------------------------
(* Properties of the unbounded specification *)

\* C23: an ITC of width 0 emits every sample its sender hands over while it
\* is not stopped, without waiting for a permit, and passes no semaphore;
\* the receiving side pushes the samples and runs their callbacks and never
\* releases or acquires a permit
C23_UnboundedNeverWaits ==
    /\ [](\A p \in ItcPorts \cap connected :
            width[p] = 0 =>
                /\ semaphore[p] = 0
                /\ semaphoreN[p] = -1
                /\ IsPrefix(history[p], emitted[p])
                /\ IsPrefix(delivered[p], history[p])
                /\ \A i \in 1..Len(pendingReceives) :
                        pendingReceives[i].port = p => ~pendingReceives[i].sem
                /\ \A i \in 1..Len(stack) :
                        (stack[i].op = "receiveAsync" /\ stack[i].port = p) => ~stack[i].sem)
    /\ [][\A p \in ItcPorts \cap connected :
            (width[p] = 0 /\ senderPc[p] # senderPc'[p]) =>
                \/ senderPc[p] = "idle" /\ senderPc'[p] = "check"
                \/ senderPc[p] = "check" /\ itcStopped[p] /\ senderPc'[p] = "idle"
                        /\ emitted'[p] = emitted[p]
                \/ senderPc[p] = "check" /\ ~itcStopped[p] /\ senderPc'[p] = "acquire"
                \/ senderPc[p] = "acquire" /\ senderPc'[p] = "idle"
                        /\ emitted'[p] = Append(emitted[p], stamps[transmitted[p]])]_vars

\* the sender of an ITC of width 0 is two samples ahead of the callbacks of
\* the receiving filter, which has taken one sample
C23_Witness ==
    \E p \in ItcPorts :
        /\ width[p] = 0
        /\ InFlight(p) >= 2
        /\ Len(delivered[p]) >= 1
        /\ Len(stack) = 0


----------------------------------------------------------------------------
(* Properties of the lifecycle specification *)

\* a step of setInterthreadDynamicQueue: no other step of the lifecycle
\* specification leaves the states and the environments of the filters alone
SetterStep == filterState' = filterState /\ environment' = environment

\* filter f has entered OPENING
HasOpened(f) == \E i \in 1..Len(trail[f]) : trail[f][i] = "OPENING"

\* C24: setInterthreadDynamicQueue(v) changes the flag of the port only
\* while the state of the filter is CONSTRUCTING, CONSTRUCTED, INITIALIZING
\* or INITIALIZED; in every other state the write of a different value is
\* logged and leaves the flag as it is, and no other step changes a flag.
C24_ConfiguredEarly ==
    [][ IF SetterStep
        THEN LET p == lastCall'.port
                 enabled == lastCall'.args[1]
             IN  /\ lastCall'.op = "setInterthreadDynamicQueue"
                 /\ IF enabled # interthreadDynamicQueue[p]
                       /\ filterState[FilterOf(p)] \notin Configurable
                    THEN /\ interthreadDynamicQueue' = interthreadDynamicQueue
                         /\ errorLog' = Append(errorLog,
                                << "setInterthreadDynamicQueue", p, enabled >>)
                    ELSE /\ interthreadDynamicQueue' =
                                [interthreadDynamicQueue EXCEPT ![p] = enabled]
                         /\ errorLog' = errorLog
        ELSE interthreadDynamicQueue' = interthreadDynamicQueue ]_vars

\* a write is refused although an earlier write to the same port was accepted
C24_Witness ==
    \E p \in ItcPorts :
        /\ interthreadDynamicQueue[p]
        /\ filterState[FilterOf(p)] \notin Configurable
        /\ lastCall.op = "setInterthreadDynamicQueue"
        /\ lastCall.port = p
        /\ lastCall.args = << FALSE >>
        /\ Len(errorLog) > 0
        /\ errorLog[Len(errorLog)] = << "setInterthreadDynamicQueue", p, FALSE >>

\* C24 as stated: the flag of a port is constant from the moment its filter
\* enters OPENING
C24_ConstantFromOpening ==
    [][ \A p \in ItcPorts :
            HasOpened(FilterOf(p)) => interthreadDynamicQueue'[p] = interthreadDynamicQueue[p]
      ]_vars

\* a step of the constructor of filter f
ConstructorStep(f) == environment'[f] # environment[f]

\* C25: the support of dynamic ports is declared once for every filter, while
\* the filter is CONSTRUCTING; declaring (FALSE, FALSE) for a filter with a
\* dynamic port ends the constructor with an exception, and declaring
\* anything for a filter without dynamic ports succeeds and is what
\* getDynamicPortsSupported reports from then on.
C25_DeclaredOnce ==
    /\ [](\A f \in Filters :
            /\ environment[f].declared <= 1
            /\ filterState[f] # "CONSTRUCTING" => environment[f].declared = 1)
    /\ [][ \A f \in Filters :
            IF ConstructorStep(f)
            THEN LET env == environment[f]
                     dynamic == env.dynamicInputPorts \/ env.dynamicOutputPorts
                 IN  /\ filterState[f] = "CONSTRUCTING"
                     /\ lastCall'.op = "Filter"
                     /\ lastCall'.args[1] = f
                     /\ (dynamic /\ ~lastCall'.args[2] /\ ~lastCall'.args[3]) =>
                            /\ lastCall'.result = "runtime_error"
                            /\ filterState'[f] = "CONSTRUCTING"
                     /\ (~dynamic) =>
                            /\ lastCall'.result = "returned"
                            /\ filterState'[f] = "CONSTRUCTED"
                            /\ GetDynamicPortsSupported(environment'[f]) =
                                    << lastCall'.args[2], lastCall'.args[3] >>
            ELSE GetDynamicPortsSupported(environment'[f]) =
                    GetDynamicPortsSupported(environment[f]) ]_vars

\* the constructor of A has failed on a dynamic port, that of B has
\* succeeded and its declaration is reported
C25_Witness ==
    /\ lastCall.op = "Filter"
    /\ lastCall.args = << "A", FALSE, FALSE >>
    /\ lastCall.result = "runtime_error"
    /\ environment["A"].dynamicInputPorts \/ environment["A"].dynamicOutputPorts
    /\ filterState["A"] = "CONSTRUCTING"
    /\ filterState["B"] = "CONSTRUCTED"
    /\ environment["B"].declared = 1
    /\ GetDynamicPortsSupported(environment["B"]) = << FALSE, FALSE >>

\* the resting states
Resting == { "CONSTRUCTED", "INITIALIZED", "OPENED", "ACTIVE", "DESTRUCTED" }

\* the resting states of a sequence of states, in their order
RECURSIVE RestingOf(_)
RestingOf(states) ==
    IF states = << >> THEN << >>
    ELSE (IF Head(states) \in Resting THEN << Head(states) >> ELSE << >>)
            \o RestingOf(Tail(states))

FailedIn(st) == \E i \in 1..Len(errorLog) : errorLog[i] = << CallbackOf(st), "A", st >>

----------------------------------------------------------------------------
(* Properties of the step specification *)

\* this step of the executor's thread is a call of Executor::step
StepTaken ==
    /\ Running("callback", "callStep") \/ Running("multiStep", "loop")
    /\ stack' # stack
    /\ lastCall'.op = "step"

\* C28: step(fromFilter) on an executor that is not stopped takes the first
\* pending event whose filter is neither blocked nor fromFilter, removes it
\* and nothing else from the pending events, hands it to its input port and
\* returns true; if there is no such event or the executor is stopped, the
\* pending events stay as they are, nothing is handed over and it returns
\* false.
C28_StepFrontMost ==
    [][ StepTaken =>
        LET from == lastCall'.args[1]
            blocked == IF from = NoFilter THEN blockedFilters
                       ELSE blockedFilters \cup { from }
            free == { i \in 1..Len(pendingReceives) :
                        FilterOf(pendingReceives[i].port) \notin blocked }
        IN  IF (~stopped) /\ free # {}
            THEN LET i == CHOOSE k \in free : \A j \in free : k <= j
                     ev == pendingReceives[i]
                 IN  /\ lastCall'.result = TRUE
                     /\ Len(pendingReceives') = Len(pendingReceives) - 1
                     /\ \A k \in 1..Len(pendingReceives') :
                            pendingReceives'[k] =
                                pendingReceives[IF k < i THEN k ELSE k + 1]
                     /\ popped' = Append(popped, ev)
                     /\ Len(stack') >= 2
                     /\ stack'[Len(stack') - 1].op = "step"
                     /\ stack'[Len(stack') - 1].from = from
                     /\ stack'[Len(stack')].op =
                            (IF ev.sem THEN "receiveAsync" ELSE "callback")
                     /\ stack'[Len(stack')].port = ev.port
                     /\ stack'[Len(stack')].sample = ev.sample
                     /\ delivered' = IF ev.sem THEN delivered
                                     ELSE [delivered EXCEPT ![ev.port] = Append(@, ev.sample)]
            ELSE /\ lastCall'.result = FALSE
                 /\ pendingReceives' = pendingReceives
                 /\ popped' = popped
                 /\ delivered' = delivered
                 /\ queue' = queue
                 /\ Len(stack') <= Len(stack) ]_vars

\* step(A) has passed over an event of the blocked filter A at the front of
\* the pending events and has handed a later event to a port of B
C28_Witness ==
    /\ lastCall = Call("step", NoPort, TRUE, << "A" >>, << >>, TRUE)
    /\ Len(stack) >= 2
    /\ stack[Len(stack) - 1].op = "step"
    /\ stack[Len(stack) - 1].from = "A"
    /\ Top.op = "callback"
    /\ Top.pc = "run"
    /\ FilterOf(Top.port) = "B"
    /\ popped # << >>
    /\ popped[Len(popped)].port = Top.port
    /\ pendingReceives # << >>
    /\ FilterOf(pendingReceives[1].port) = "A"
    /\ Top.sample > pendingReceives[1].sample

\* step(fromFilter) has been called on a stopped executor with a pending
\* event and has returned false
C28_StoppedReached ==
    /\ stopped
    /\ pendingReceives # << >>
    /\ lastCall.op = "step"
    /\ lastCall.result = FALSE
    /\ Running("callback", "run")

----------------------------------------------------------------------------
(* Properties of the multiStep specification *)

\* the multiStep() calls posted to the event loop
PostedMultiSteps ==
    Cardinality({ i \in 1..Len(eventQueue) : eventQueue[i].ev = "multiStep" })

\* C29: multiStep calls step() only while its budget maxEvents, which starts
\* at MAX_EVENTS_PER_STEP = 32 and loses one with every step() that returns
\* true, is positive; when a step() returns false it returns and posts
\* nothing; when it leaves the loop after a step() that returned true, one
\* multiStep() and no more is posted to the event loop.
C29_BudgetAndRearm ==
    /\ [](\A i \in 1..Len(stack) :
            stack[i].op = "multiStep" => stack[i].n \in 0..32)
    /\ [][ /\ (Running("multiStep", "loop") /\ stack' # stack) =>
                /\ stack' = Below \/ Top.n > 0
                /\ IF lastCall'.op = "step"
                   THEN /\ Top.n > 0
                        /\ lastCall'.result = FALSE =>
                                /\ stack' = Below
                                /\ eventQueue' = eventQueue
                                /\ numNotifiesInQueue' = numNotifiesInQueue
                   ELSE /\ stack' = Below
                        /\ lastCall'.args = << Top.n >>
                        /\ Top.n < 32 =>
                                /\ PostedMultiSteps' = 1
                                /\ numNotifiesInQueue' = 1
                                /\ Len(eventQueue') <= Len(eventQueue) + 1
           /\ (Running("step", "dispatch") /\ stack' # stack /\ Len(stack) > 1
                    /\ stack[Len(stack) - 1].op = "multiStep") =>
                /\ Len(stack') = Len(stack) - 1
                /\ stack'[Len(stack')].n = stack[Len(stack) - 1].n - 1 ]_vars

\* multiStep has used up its budget with events still pending, has posted
\* the next multiStep() and has returned
C29_Witness ==
    /\ lastCall = Call("notifyInThread", NoPort, TRUE, << 0 >>, << >>, "returned")
    /\ stack = << >>
    /\ Len(popped) >= 32
    /\ pendingReceives # << >>
    /\ PostedMultiSteps = 1
    /\ numNotifiesInQueue = 1

----------------------------------------------------------------------------
(* Properties of the finalize specification *)

\* C30: finalize() returns, whatever events are pending when it is called
\* and whether or not the callbacks it reaches transmit a new sample into a
\* port of the other filter every time they run; it hands at most
\* MAX_LOOPS_FINALIZE = 5 events to each input port.
C30_FinalizeTerminates ==
    /\ [](\A p \in Ports : numCalled[p] <= 5)
    /\ [](lastCall.op = "finalize" =>
            SumOver(transmitted, Ports) <= 2 * SumOver(numCalled, Ports))
    /\ (lastCall = Call("finalize", NoPort, TRUE, << >>, << >>, "running"))
            ~> (stack = << >>
                    /\ lastCall = Call("finalize", NoPort, TRUE, << >>, << >>, "returned"))

\* finalize() has returned after five calls of a port whose filter and its
\* peer kept transmitting to each other, and has left the last event pending
C30_Witness ==
    /\ stack = << >>
    /\ lastCall = Call("finalize", NoPort, TRUE, << >>, << >>, "returned")
    /\ numCalled["a_ex"] = 5
    /\ transmitted["a_ex"] >= 5
    /\ transmitted["b_ex"] >= 5
    /\ pendingReceives # << >>
    /\ pendingReceives[1].port = "a_ex"

----------------------------------------------------------------------------
(* Properties of the nested finalize specification *)

\* event i of the pending events may be handed over by finalize()
Drainable(i) ==
    /\ FilterOf(pendingReceives[i].port) \notin blockedFilters
    /\ numCalled[pendingReceives[i].port] < 5

\* C31: finalize() hands at most MAX_LOOPS_FINALIZE = 5 events to each input
\* port and none to a port of a blocked filter; each event it hands over is
\* the first pending one of a port that is neither blocked nor used up, and
\* when it returns every pending event is for a blocked filter or for a port
\* that has had its 5 events.
C31_FinalizeDrains ==
    /\ [](\A p \in Ports : numCalled[p] \in 0..5)
    /\ [][ (Running("finalize", "scan") /\ stack' # stack) =>
            IF \E i \in 1..Len(pendingReceives) : Drainable(i)
            THEN LET i == CHOOSE k \in 1..Len(pendingReceives) :
                            Drainable(k) /\ \A j \in 1..(k - 1) : ~Drainable(j)
                     ev == pendingReceives[i]
                 IN  /\ stack' = Append(stack, stack'[Len(stack')])
                     /\ stack'[Len(stack')].op =
                            (IF ev.sem THEN "receiveAsync" ELSE "callback")
                     /\ stack'[Len(stack')].port = ev.port
                     /\ stack'[Len(stack')].sample = ev.sample
                     /\ popped' = Append(popped, ev)
                     /\ pendingReceives' = RemoveAt(pendingReceives, i)
                     /\ numCalled' = [numCalled EXCEPT ![ev.port] = @ + 1]
            ELSE /\ stack' = Below
                 /\ pendingReceives' = pendingReceives
                 /\ numCalled' = numCalled
                 /\ popped' = popped
                 /\ \A i \in 1..Len(pendingReceives) :
                        \/ FilterOf(pendingReceives[i].port) \in blockedFilters
                        \/ numCalled[pendingReceives[i].port] = 5 ]_vars

\* finalize(), called from a callback of B while A is blocked, has returned
\* into that callback with an event of A still pending and an event of B
\* handed over
C31_Witness ==
    /\ lastCall = Call("finalize", NoPort, TRUE, << >>, << >>, "returned")
    /\ Running("callback", "run")
    /\ blockedFilters = { "A" }
    /\ pendingReceives # << >>
    /\ FilterOf(pendingReceives[1].port) = "A"
    /\ numCalled[pendingReceives[1].port] < 5
    /\ \E p \in Ports : FilterOf(p) = "B" /\ numCalled[p] > 0

\* C31 as stated: while finalize() runs, no input port has more than 5 events
\* handed to it, whoever hands them over
C31_AtMostFivePerPort ==
    \A p \in Ports :
        (\E i \in 1..Len(stack) : stack[i].op = "finalize") =>
            Cardinality({ i \in 1..Len(popped) : popped[i].port = p }) <= 5

----------------------------------------------------------------------------
(* Properties of the mutex specification *)

\* the thread that takes the step
Actor ==
    IF clearPc' # clearPc THEN ClearThread
    ELSE IF senderPc' # senderPc
         THEN CHOOSE p \in ItcPorts : senderPc'[p] # senderPc[p]
         ELSE ExecutorThread

\* C32: every step that changes pendingReceives or blockedFilters is taken by
\* a thread that holds pendingReceivesMutex.
C32_MutatedUnderMutex ==
    [][(pendingReceives' # pendingReceives \/ blockedFilters' # blockedFilters)
            => pendingReceivesMutex = Actor]_vars

\* the appends of register and the erases of step() and finalize() are made
\* under the mutex: what is not are clear() and StepFunctionHelper
C32_QueueUnderMutexButClear ==
    [][(pendingReceives' # pendingReceives /\ clearPc' = clearPc)
            => pendingReceivesMutex = Actor]_vars

\* no thread is about to write pendingReceives while another one is
C32_NoConcurrentWriters ==
    ~(/\ clearPc = "pendingReceives"
      /\ \/ \E p \in ItcPorts : senderPc[p] = "locked"
         \/ Running("step", "scan")
         \/ Running("callback", "registerPush"))

\* the frame of the executor that holds the mutex, if one does: the
\* innermost frame, inside step(), finalize() or registerPendingRcvSync
HolderOnTop ==
    /\ stack # << >>
    /\ \/ Top.op \in {"step", "finalize"} /\ Top.n = 1
       \/ Top.op = "callback" /\ Top.pc = "registerPush"

\* C33: a call of step() or finalize() holds the mutex at most once, holds
\* it neither while the dispatch it made runs nor when it returns, and the
\* thread of the executor never calls lock() while it holds the mutex: while
\* a callback or receiveAsync runs, the mutex is held by the thread of the
\* executor only inside a register or step the callback itself has entered.
C33_MutexReleased ==
    /\ \A i \in 1..Len(stack) :
            stack[i].op \in {"step", "finalize"} =>
                /\ stack[i].n \in {0, 1}
                /\ i < Len(stack) => stack[i].n = 0
                /\ stack[i].pc \in {"found", "none", "return", "lock", "relock"}
                        => stack[i].n = 0
    /\ pendingReceivesMutex = ExecutorThread <=> HolderOnTop
    /\ (stack # << >> /\ Top.pc \in {"lock", "relock", "registerLock"})
            => pendingReceivesMutex # ExecutorThread

\* a callback that step() has dispatched has registered a sample and has
\* entered step(), which holds the mutex
C33_Witness ==
    /\ Len(stack) > 2
    /\ Running("step", "scan")
    /\ pendingReceivesMutex = ExecutorThread
    /\ stack[Len(stack) - 1].op = "callback"
    /\ \E i \in 1..(Len(stack) - 2) : stack[i].op = "step" /\ stack[i].pc = "dispatch"
    /\ pendingReceives # << >>

----------------------------------------------------------------------------
(* Properties of the main-thread guard of receiveAsync *)

\* the frames of calls that a receiveAsync call made while it drained the buffer
Drained == { i \in 2..Len(stack) : stack[i - 1].op = "receiveAsync" /\ stack[i - 1].pc = "drain" }

\* the frames above a receiveAsync call that is inside its yield
InYield ==
    { i \in 1..Len(stack) : \E j \in 1..(i - 1) : stack[j].pc = "yield" }

----------------------------------------------------------------------------
(* Properties of numNotifiesInQueue *)

\* C35: numNotifiesInQueue is 0 or 1 and is the number of multiStep() calls
\* posted to the event loop and not yet run; a multiStep() is posted only by a
\* step that finds the counter at 0.
C35_NotifiesCounted ==
    /\ [](numNotifiesInQueue \in {0, 1} /\ numNotifiesInQueue = PostedMultiSteps)
    /\ [][PostedMultiSteps' > PostedMultiSteps
            => numNotifiesInQueue = 0 /\ PostedMultiSteps' = 1]_vars

\* multiStep() runs, its counter went from 1 to 0, and a notifyInThread has
\* posted the next multiStep(); a notify() is queued that will post nothing
C35_Witness ==
    /\ \E i \in 1..Len(stack) : stack[i].op = "multiStep"
    /\ numNotifiesInQueue = 1
    /\ PostedMultiSteps = 1
    /\ \E i \in 1..Len(eventQueue) : eventQueue[i].ev = "notify"

----------------------------------------------------------------------------
(* Properties of the state specification *)

\* the step pushes a sample into the queue of port p
Pushed(p) == history'[p] # history[p]

\* the records of the error log that name port p
ErrorsOf(p) == { i \in 1..Len(errorLog) : errorLog[i][2] = p }

\* C36: onPortDataChanged is entered only for a port whose filter is ACTIVE,
\* and it runs while the filter is ACTIVE.  A sample received in state OPENED
\* is pushed into the queue, no callback is entered and no error is logged; a
\* sample received in another state is pushed, no callback is entered and one
\* error is logged.
C36_CallbackOnlyActive ==
    /\ [](\A i \in 1..Len(stack) :
            stack[i].op = "callback" => filterState[FilterOf(stack[i].port)] = "ACTIVE")
    /\ [][\A p \in Ports :
            /\ delivered'[p] # delivered[p]
                    => filterState[FilterOf(p)] = "ACTIVE" /\ Pushed(p)
            /\ Pushed(p) =>
                    LET st == filterState[FilterOf(p)]
                        s == Last(history'[p])
                    IN  /\ queue'[p] # << >>
                        /\ queue'[p][1] = s
                        /\ st = "ACTIVE"
                                => /\ delivered'[p] = Append(delivered[p], s)
                                   /\ errorLog' = errorLog
                                   /\ Top'.op = "callback" /\ Top'.port = p
                        /\ st = "OPENED"
                                => /\ delivered' = delivered
                                   /\ errorLog' = errorLog
                                   /\ \A i \in 1..Len(stack') : stack'[i].op # "callback"
                        /\ st \notin {"ACTIVE", "OPENED"}
                                => /\ delivered' = delivered
                                   /\ Len(errorLog') = Len(errorLog) + 1
                                   /\ Last(errorLog')[2] = p
                                   /\ Last(errorLog')[3] = s
                                   /\ \A i \in 1..Len(stack') : stack'[i].op # "callback"]_vars

\* one port has received a sample in each case: a callback, a discarded
\* sample and a state error
C36_Witness ==
    \E p \in Ports :
        /\ Len(history[p]) = 3
        /\ Len(delivered[p]) = 1
        /\ Cardinality(ErrorsOf(p)) = 1

----------------------------------------------------------------------------
(* Properties of the executor after clear() *)

\* C37: once the executor is stopped it reaches a state from which on no
\* multiStep() is posted to the event loop.
C37_Quiescent == stopped ~> [](PostedMultiSteps = 0)

\* while the executor is not stopped and nothing is pending or running, the
\* event loop does come to rest with no multiStep() posted
C37_IdleWhileRunning ==
    [](~stopped) => <>[](PostedMultiSteps = 0)

----------------------------------------------------------------------------
(* Properties of blockedFilters *)

\* the filters whose callback has called step(fromFilter) and waits for it
Stepping ==
    { stack[i].from : i \in { j \in 1..Len(stack) :
                                stack[j].op = "step" /\ stack[j].from # NoFilter } }

\* C38: the blocked filters are the filters F with a call step(F) that has
\* not returned: F is blocked when the call is entered, stays blocked while
\* calls nested in it are made and return, and the call leaves blockedFilters
\* as it found it.
C38_BlockedWhileStepping == blockedFilters = Stepping

----------------------------------------------------------------------------
(* Properties of the permits in the state specification *)

\* no receiveSample call is under way, nothing is posted, buffered or running
Handled ==
    /\ stack = << >>
    /\ eventQueue = << >>
    /\ mainPendingReceives = << >>
    /\ \A p \in ItcPorts : senderPc[p] = "idle"

\* C39: with the static queue every receiveAsync call releases the permit
\* its sender acquired: when the receiver has handled every sample, all
\* permits of every ITC are available again.
C39_PermitsReturned ==
    Handled => \A p \in ItcPorts : semaphore[p] = width[p]

\* the permits that are missing are those of the calls that ended in the
\* catch of receiveAsync
C39_ReturnedUnlessStateError ==
    Handled => \A p \in ItcPorts :
        semaphore[p] = width[p]
            - Cardinality({ i \in ErrorsOf(p) : errorLog[i][1] = "receiveAsync" })

----------------------------------------------------------------------------
(* Properties of the credit of a dynamic queue *)

\* the permits of the samples that receiveSample has passed on and that
\* receiveAsync has not yet pushed into the queue
Held(p) == Len(emitted[p]) - Len(history[p])

\* the permits of the edge: those available and those held by samples
Credit(p) == semaphore[p] + Held(p)

\* the queue of a port after the samples h were pushed, one by one
RECURSIVE QueueAfter(_, _, _)
QueueAfter(h, samples, seconds) ==
    IF h = << >> THEN << >>
    ELSE AddToQueue(QueueAfter(Front(h), samples, seconds), samples, seconds, Last(h))

\* the largest size the queue of p has had so far
RECURSIVE LargestUpTo(_, _)
LargestUpTo(p, k) ==
    LET here == Len(QueueAfter(SubSeq(history[p], 1, k), queueSizeSamples[p],
                               queueSizeSeconds[p]))
    IN  IF k = 0 THEN 0
        ELSE IF here > LargestUpTo(p, k - 1) THEN here ELSE LargestUpTo(p, k - 1)

LargestQueue(p) == LargestUpTo(p, Len(history[p]))

\* C40: with the dynamic queue and an ITC of width 1, once receiveAsync has
\* seen the semaphore, its counter N is the credit of the edge (the permits
\* available plus those held by samples acquired and not yet pushed), N is
\* at least 1, at least the size of the queue and at most the largest size
\* the queue has had, and with a positive sample bound the credit is at
\* most that bound.
C40_CounterIsCredit ==
    \A p \in ItcPorts \cap connected :
        (interthreadDynamicQueue[p] /\ width[p] = 1 /\ semaphoreN[p] # -1) =>
            /\ queue[p] = QueueAfter(history[p], queueSizeSamples[p], queueSizeSeconds[p])
            /\ semaphoreN[p] = Credit(p)
            /\ semaphoreN[p] >= 1
            /\ Len(queue[p]) <= semaphoreN[p]
            /\ semaphoreN[p] <= LargestQueue(p)
            /\ queueSizeSamples[p] > 0 => Credit(p) <= queueSizeSamples[p]

\* a width-1 edge whose credit grew to three with the queue and, after the
\* queue shrank to one sample, went back to one: receiveAsync gave up the
\* permit it held and took another one back
C40_Witness ==
    \E p \in ItcPorts \cap connected :
        /\ interthreadDynamicQueue[p] /\ width[p] = 1
        /\ LargestQueue(p) >= 3
        /\ Len(queue[p]) = 1
        /\ semaphoreN[p] = 1
        /\ BeforeTransmit(p) = 0

====
